---- MODULE Spec2Model ----
(***************************************************************************)
(* Template engine of the ID-card designer: the document reducers with     *)
(* their undo/redo stacks (TemplateProvider and TemplateEditorCanvas), the *)
(* pointer/keyboard interaction controller (useElementInteraction) and the *)
(* layer/order manager (getOrderedElements).                               *)
(*                                                                         *)
(* Two hosts own a document: the TemplateProvider (documentReducer plus    *)
(* selectionReducer behind one dispatch) and the TemplateEditorCanvas      *)
(* (editorReducer).  `host` says which one a behaviour is about; `store`   *)
(* is that host's reducer state.  `pre` and `last` record the store before *)
(* the latest dispatch and the action (or event) that was dispatched, so   *)
(* that a property of one reducer step is a state predicate.  `ord` holds   *)
(* the arguments and the result of one call of a pure function of the      *)
(* engine (getOrderedElements, resolveBinding, evaluateCondition, ...).    *)
(***************************************************************************)
EXTENDS Integers, Sequences, FiniteSets, TLC

VARIABLES host, store, ctl, config, now, last, pre, steps, undos, phase, gesture, ord

vars == <<host, store, ctl, config, now, last, pre, steps, undos, phase, gesture, ord>>

(***************************************************************************)
(* Bounds of the model.                                                    *)
(***************************************************************************)
MaxSteps == 3
MaxCommits == 52
MaxHist == 2
MaxDrags == 1

(***************************************************************************)
(* Values.                                                                 *)
(***************************************************************************)
Null == [null |-> TRUE]
NoId == "null"
Hosts == {"provider", "editor"}

\* A JavaScript number (a coordinate, a width, a height) is the reduced
\* fraction <<n, d>> with d > 0.
RECURSIVE GCD(_, _)
GCD(a, b) == IF b = 0 THEN a ELSE GCD(b, a % b)
Abs(n) == IF n < 0 THEN -n ELSE n
Rat(n, d) ==
  LET g == GCD(Abs(n), Abs(d))
      s == IF d < 0 THEN -1 ELSE 1
  IN  <<(s * n) \div g, (s * d) \div g>>
R(n) == <<n, 1>>
RAdd(a, b) == Rat(a[1] * b[2] + b[1] * a[2], a[2] * b[2])
RSub(a, b) == Rat(a[1] * b[2] - b[1] * a[2], a[2] * b[2])
RAbs(a) == <<Abs(a[1]), a[2]>>
RLess(a, b) == a[1] * b[2] < b[1] * a[2]
RMax(a, b) == IF RLess(a, b) THEN b ELSE a
RDiv(a, b) == Rat(a[1] * b[2], a[2] * b[1])
RMul(a, b) == Rat(a[1] * b[1], a[2] * b[2])
\* Math.round: the nearest integer, a half rounds up.
MathRound(a) == (2 * a[1] + a[2]) \div (2 * a[2])

Pos(x, y) == [x |-> x, y |-> y]
P(x, y) == Pos(R(x), R(y))
Dims(w, h, lock) == [width |-> w, height |-> h, aspectLock |-> lock]

Layers0 ==
  << [id |-> "default", visible |-> TRUE, locked |-> FALSE, order |-> 0],
     [id |-> "fixed", visible |-> TRUE, locked |-> TRUE, order |-> 1] >>

ElA == [id |-> "a", name |-> "A", layerId |-> "default",
        position |-> P(10, 20), dimensions |-> Dims(R(100), R(50), TRUE),
        zIndex |-> 0, visible |-> TRUE, locked |-> FALSE, selectable |-> TRUE]
ElB == [id |-> "b", name |-> "B", layerId |-> "fixed",
        position |-> P(0, 0), dimensions |-> Dims(R(40), R(40), FALSE),
        zIndex |-> 1, visible |-> TRUE, locked |-> FALSE, selectable |-> TRUE]
ElC == [id |-> "c", name |-> "C", layerId |-> "default",
        position |-> P(5, 5), dimensions |-> Dims(R(20), R(20), FALSE),
        zIndex |-> 2, visible |-> TRUE, locked |-> FALSE, selectable |-> TRUE]

Doc0 == [id |-> "doc", elements |-> <<ElA, ElB>>, layers |-> Layers0,
         background |-> [type |-> "solid", color |-> "white"],
         variables |-> << [name |-> "v", value |-> 0] >>]
Doc1 == [id |-> "doc1", elements |-> <<ElC>>, layers |-> Layers0,
         background |-> [type |-> "solid", color |-> "white"],
         variables |-> <<>>]

(***************************************************************************)
(* Helpers standing for the JavaScript built-ins the reducers use.         *)
(***************************************************************************)
\* An action of the EngineAction vocabulary.
Act(type, payload) == [type |-> type, payload |-> payload]

\* { ...a, ...b }
Spread(a, b) ==
  [k \in (DOMAIN a) \cup (DOMAIN b) |-> IF k \in DOMAIN b THEN b[k] ELSE a[k]]

\* s.slice(-n)
SliceLast(s, n) ==
  IF Len(s) <= n THEN s ELSE SubSeq(s, Len(s) - n + 1, Len(s))

\* s.slice(0, -1)
DropLast(s) == SubSeq(s, 1, Len(s) - 1)

\* elements.find(el => el.id === id), Null for undefined
FindElement(elements, id) ==
  IF \E i \in 1..Len(elements) : elements[i].id = id
  THEN elements[CHOOSE i \in 1..Len(elements) :
                  /\ elements[i].id = id
                  /\ \A j \in 1..(i - 1) : elements[j].id # id]
  ELSE Null

HasElement(elements, id) == \E i \in 1..Len(elements) : elements[i].id = id

\* `${original.id}_copy_${Date.now()}`
CopyId(id, t) == id \o "_copy_" \o ToString(t)

(***************************************************************************)
(* documentReducer and pushHistory (TemplateProvider).                     *)
(* A reducer state is [document, history, future].                         *)
(***************************************************************************)
MAX_HISTORY == 50

\* Mutants of pushHistory: the redo stack survives a new edit; the new
\* document is pushed in place of the old one.
pushHistory_keepsFuture(state, newDoc) ==
  [document |-> newDoc,
   history |-> Append(SliceLast(state.history, 50), state.document),
   future |-> state.future]

pushHistory_pushesNew(state, newDoc) ==
  [document |-> newDoc,
   history |-> Append(SliceLast(state.history, 50), newDoc),
   future |-> <<>>]

pushHistory(state, newDoc) ==
  [document |-> newDoc,
   history |-> Append(SliceLast(state.history, MAX_HISTORY), state.document),
   future |-> <<>>]

\* Mutant of the UNDO case: an UNDO on an empty history drops the redo stack.
documentReducer_UNDO_resets(state) ==
  IF Len(state.history) = 0
  THEN [document |-> state.document, history |-> <<>>, future |-> <<>>]
  ELSE [document |-> state.history[Len(state.history)],
        history |-> DropLast(state.history),
        future |-> <<state.document>> \o state.future]

documentReducer_UNDO(state) ==
  IF Len(state.history) = 0 THEN state
  ELSE [document |-> state.history[Len(state.history)],
        history |-> DropLast(state.history),
        future |-> <<state.document>> \o state.future]

\* Mutant of the REDO case: the current document goes under the history
\* instead of on top of it.
documentReducer_REDO_prepends(state) ==
  IF Len(state.future) = 0 THEN state
  ELSE [document |-> state.future[1],
        history |-> <<state.document>> \o state.history,
        future |-> Tail(state.future)]

documentReducer_REDO(state) ==
  IF Len(state.future) = 0 THEN state
  ELSE [document |-> state.future[1],
        history |-> Append(state.history, state.document),
        future |-> Tail(state.future)]

\* documentReducer_DUPLICATE with the copy put in front of the elements
documentReducer_DUPLICATE_prepends(state, id, t) ==
  LET doc == state.document
      original == FindElement(doc.elements, id)
      copy == Spread(original,
                [id |-> CopyId(original.id, t),
                 name |-> original.name \o " (copy)",
                 position |-> Spread(original.position,
                                [x |-> RAdd(original.position.x, R(10)),
                                 y |-> RAdd(original.position.y, R(10))])])
  IN  IF original = Null THEN state
      ELSE pushHistory(state, Spread(doc, [elements |-> <<copy>> \o doc.elements]))

documentReducer_DUPLICATE(state, id, t) ==
  LET doc == state.document
      original == FindElement(doc.elements, id)
      copy == Spread(original,
                [id |-> CopyId(original.id, t),
                 name |-> original.name \o " (copy)",
                 position |-> Spread(original.position,
                                [x |-> RAdd(original.position.x, R(10)),
                                 y |-> RAdd(original.position.y, R(10))])])
  IN  IF original = Null THEN state
      ELSE pushHistory(state, Spread(doc, [elements |-> Append(doc.elements, copy)]))

RECURSIVE documentReducer(_, _, _)
RECURSIVE documentReducer_BATCH(_, _, _)

documentReducer(state, action, t) ==
  LET doc == state.document
      p == action.payload
  IN
  CASE action.type = "SET_DOCUMENT" ->
         [document |-> p, history |-> <<>>, future |-> <<>>]
    [] action.type = "UPDATE_ELEMENT" ->
         pushHistory(state, Spread(doc, [elements |->
           [i \in 1..Len(doc.elements) |->
              IF doc.elements[i].id = p.id
              THEN Spread(doc.elements[i], p.changes) ELSE doc.elements[i]]]))
    [] action.type = "MOVE_ELEMENT" ->
         pushHistory(state, Spread(doc, [elements |->
           [i \in 1..Len(doc.elements) |->
              IF doc.elements[i].id = p.id
              THEN Spread(doc.elements[i], [position |-> p.position])
              ELSE doc.elements[i]]]))
    [] action.type = "RESIZE_ELEMENT" ->
         pushHistory(state, Spread(doc, [elements |->
           [i \in 1..Len(doc.elements) |->
              IF doc.elements[i].id = p.id
              THEN Spread(Spread(doc.elements[i], [dimensions |-> p.dimensions]),
                          IF p.position # Null THEN [position |-> p.position]
                          ELSE <<>>)
              ELSE doc.elements[i]]]))
    [] action.type = "ADD_ELEMENT" ->
         pushHistory(state, Spread(doc, [elements |-> Append(doc.elements, p)]))
    [] action.type = "REMOVE_ELEMENT" ->
         pushHistory(state, Spread(doc, [elements |->
           SelectSeq(doc.elements, LAMBDA el : el.id # p)]))
    [] action.type = "DUPLICATE_ELEMENT" ->
         documentReducer_DUPLICATE(state, p, t)
    [] action.type = "REORDER_ELEMENT" ->
         pushHistory(state, Spread(doc, [elements |->
           [i \in 1..Len(doc.elements) |->
              IF doc.elements[i].id = p.id
              THEN Spread(doc.elements[i], [zIndex |-> p.zIndex])
              ELSE doc.elements[i]]]))
    [] action.type = "SET_BACKGROUND" ->
         pushHistory(state, Spread(doc, [background |-> Spread(doc.background, p)]))
    [] action.type = "UPDATE_LAYER" ->
         pushHistory(state, Spread(doc, [layers |->
           [i \in 1..Len(doc.layers) |->
              IF doc.layers[i].id = p.id
              THEN Spread(doc.layers[i], p.changes) ELSE doc.layers[i]]]))
    [] action.type = "SET_VARIABLE" ->
         pushHistory(state, Spread(doc, [variables |->
           [i \in 1..Len(doc.variables) |->
              IF doc.variables[i].name = p.name
              THEN Spread(doc.variables[i], [value |-> p.value])
              ELSE doc.variables[i]]]))
    [] action.type = "UNDO" -> documentReducer_UNDO(state)
    [] action.type = "REDO" -> documentReducer_REDO(state)
    [] action.type = "BATCH" -> documentReducer_BATCH(state, p, t)
    [] OTHER -> state

\* let current = state; for (const a of action.payload) current = documentReducer(current, a)
documentReducer_BATCH(state, actions, t) ==
  IF Len(actions) = 0 THEN state
  ELSE documentReducer_BATCH(documentReducer(state, Head(actions), t), Tail(actions), t)

(***************************************************************************)
(* selectionReducer (TemplateProvider).                                    *)
(***************************************************************************)
initialSelection ==
  [selectedIds |-> <<>>, hoveredId |-> NoId, dragState |-> Null, resizeState |-> Null]

selectionReducer(state, action) ==
  LET p == action.payload IN
  CASE action.type = "SELECT_ELEMENTS" -> Spread(state, [selectedIds |-> p])
    [] action.type = "HOVER_ELEMENT" -> Spread(state, [hoveredId |-> p])
    [] action.type = "START_DRAG" -> Spread(state, [dragState |-> p])
    [] action.type = "UPDATE_DRAG" ->
         IF state.dragState = Null THEN state
         ELSE Spread(state, [dragState |->
                Spread(state.dragState, [currentPosition |-> p])])
    [] action.type = "END_DRAG" -> Spread(state, [dragState |-> Null])
    [] action.type = "START_RESIZE" -> Spread(state, [resizeState |-> p])
    [] action.type = "UPDATE_RESIZE" ->
         IF state.resizeState = Null THEN state
         ELSE Spread(state, [resizeState |->
                Spread(state.resizeState, [currentDimensions |-> p])])
    [] action.type = "END_RESIZE" -> Spread(state, [resizeState |-> Null])
    [] OTHER -> state

(***************************************************************************)
(* editorReducer and pushUndo (TemplateEditorCanvas).                      *)
(* An editor state is [document, history, future, selectedIds, hoveredId]. *)
(***************************************************************************)
pushUndo(state, newDoc) ==
  Spread(state,
    [document |-> newDoc,
     history |-> Append(SliceLast(state.history, 50), state.document),
     future |-> <<>>])

editorReducer_UNDO(state) ==
  IF Len(state.history) = 0 THEN state
  ELSE Spread(state,
         [document |-> state.history[Len(state.history)],
          history |-> DropLast(state.history),
          future |-> <<state.document>> \o state.future])

editorReducer_REDO(state) ==
  IF Len(state.future) = 0 THEN state
  ELSE Spread(state,
         [document |-> state.future[1],
          history |-> Append(state.history, state.document),
          future |-> Tail(state.future)])

\* UPDATE_DRAG recording the live position as an edit
editorReducer_UPDATE_DRAG_pushes(state, position) ==
  IF Len(state.selectedIds) # 1 THEN state
  ELSE LET id == state.selectedIds[1]
           doc == state.document
       IN  pushUndo(state, Spread(doc, [elements |->
             [i \in 1..Len(doc.elements) |->
                IF doc.elements[i].id = id
                THEN Spread(doc.elements[i], [position |-> position])
                ELSE doc.elements[i]]]))

editorReducer_UPDATE_DRAG(state, position) ==
  IF Len(state.selectedIds) # 1 THEN state
  ELSE LET id == state.selectedIds[1]
           doc == state.document
       IN  Spread(state, [document |-> Spread(doc, [elements |->
             [i \in 1..Len(doc.elements) |->
                IF doc.elements[i].id = id
                THEN Spread(doc.elements[i], [position |-> position])
                ELSE doc.elements[i]]])])

editorReducer_UPDATE_RESIZE(state, dimensions) ==
  IF Len(state.selectedIds) # 1 THEN state
  ELSE LET id == state.selectedIds[1]
           doc == state.document
       IN  Spread(state, [document |-> Spread(doc, [elements |->
             [i \in 1..Len(doc.elements) |->
                IF doc.elements[i].id = id
                THEN Spread(doc.elements[i], [dimensions |->
                       Spread(doc.elements[i].dimensions, dimensions)])
                ELSE doc.elements[i]]])])

editorReducer_DUPLICATE(state, id, t) ==
  LET doc == state.document
      original == FindElement(doc.elements, id)
      copy == Spread(original,
                [id |-> CopyId(original.id, t),
                 name |-> original.name \o " (copy)",
                 position |-> Spread(original.position,
                                [x |-> RAdd(original.position.x, R(8)),
                                 y |-> RAdd(original.position.y, R(8))]),
                 locked |-> FALSE,
                 selectable |-> TRUE])
  IN  IF original = Null THEN state
      ELSE Spread(pushUndo(state, Spread(doc, [elements |-> Append(doc.elements, copy)])),
                  [selectedIds |-> <<copy.id>>])

editorReducer(state, action, t) ==
  LET doc == state.document
      p == action.payload
  IN
  CASE action.type = "SET_DOCUMENT" ->
         Spread(state, [document |-> p, history |-> <<>>, future |-> <<>>])
    [] action.type = "SELECT_ELEMENTS" -> Spread(state, [selectedIds |-> p])
    [] action.type = "HOVER_ELEMENT" -> Spread(state, [hoveredId |-> p])
    [] action.type = "UPDATE_DRAG" -> editorReducer_UPDATE_DRAG(state, p)
    [] action.type = "UPDATE_RESIZE" -> editorReducer_UPDATE_RESIZE(state, p)
    [] action.type \in {"START_DRAG", "END_DRAG", "START_RESIZE", "END_RESIZE"} ->
         state
    [] action.type = "MOVE_ELEMENT" ->
         pushUndo(state, Spread(doc, [elements |->
           [i \in 1..Len(doc.elements) |->
              IF doc.elements[i].id = p.id
              THEN Spread(doc.elements[i], [position |-> p.position])
              ELSE doc.elements[i]]]))
    [] action.type = "RESIZE_ELEMENT" ->
         pushUndo(state, Spread(doc, [elements |->
           [i \in 1..Len(doc.elements) |->
              IF doc.elements[i].id = p.id
              THEN Spread(Spread(doc.elements[i], [dimensions |-> p.dimensions]),
                          IF p.position # Null THEN [position |-> p.position]
                          ELSE <<>>)
              ELSE doc.elements[i]]]))
    [] action.type = "UPDATE_ELEMENT" ->
         pushUndo(state, Spread(doc, [elements |->
           [i \in 1..Len(doc.elements) |->
              IF doc.elements[i].id = p.id
              THEN Spread(doc.elements[i], p.changes) ELSE doc.elements[i]]]))
    [] action.type = "REMOVE_ELEMENT" ->
         pushUndo(state, Spread(doc, [elements |->
           SelectSeq(doc.elements, LAMBDA el : el.id # p)]))
    [] action.type = "DUPLICATE_ELEMENT" -> editorReducer_DUPLICATE(state, p, t)
    [] action.type = "REORDER_ELEMENT" ->
         pushUndo(state, Spread(doc, [elements |->
           [i \in 1..Len(doc.elements) |->
              IF doc.elements[i].id = p.id
              THEN Spread(doc.elements[i], [zIndex |-> p.zIndex])
              ELSE doc.elements[i]]]))
    [] action.type = "UNDO" -> editorReducer_UNDO(state)
    [] action.type = "REDO" -> editorReducer_REDO(state)
    [] OTHER -> state

(***************************************************************************)
(* The two hosts.  The provider's dispatch fans out to both of its         *)
(* reducers; the editor has the one reducer.                               *)
(***************************************************************************)
TemplateProvider(initialDocument) ==
  [doc |-> [document |-> initialDocument, history |-> <<>>, future |-> <<>>],
   sel |-> initialSelection]

TemplateEditorCanvas(initialDocument) ==
  [document |-> initialDocument, history |-> <<>>, future |-> <<>>,
   selectedIds |-> <<>>, hoveredId |-> NoId]

dispatch(h, s, action, t) ==
  IF h = "provider"
  THEN [doc |-> documentReducer(s.doc, action, t),
        sel |-> selectionReducer(s.sel, action)]
  ELSE editorReducer(s, action, t)

\* The history slice of a host's state: [document, history, future].
DocState(h, s) ==
  IF h = "provider" THEN s.doc
  ELSE [document |-> s.document, history |-> s.history, future |-> s.future]

SelectedIds(h, s) == IF h = "provider" THEN s.sel.selectedIds ELSE s.selectedIds

Cur == DocState(host, store)
Was == DocState(host, pre)

(***************************************************************************)
(* The interaction controller's refs (useElementInteraction) and the       *)
(* engine configuration it is given.                                       *)
(***************************************************************************)
ctl0 ==
  [isDragging |-> FALSE, isResizing |-> FALSE, dragStart |-> Null,
   resizeStart |-> Null, activeElementId |-> NoId, lastDragPos |-> Null,
   lastResizeDims |-> Null]

DEFAULT_ENGINE_CONFIG ==
  [mode |-> "preview", scale |-> R(1), snapToGrid |-> FALSE, gridSize |-> 5,
   enableKeyboard |-> TRUE]

NoAction == [type |-> "INIT", payload |-> Null]

Mount(h, d) == IF h = "provider" THEN TemplateProvider(d) ELSE TemplateEditorCanvas(d)

(***************************************************************************)
(* isElementLocked (layerManager).                                         *)
(***************************************************************************)
\* isElementLocked reading the element's own flag only
isElementLocked_ownFlagOnly(element, layers) == element.locked

isElementLocked(element, layers) ==
  IF element.locked THEN TRUE
  ELSE LET layer == FindElement(layers, element.layerId)
       IN  IF layer = Null THEN FALSE ELSE layer.locked

(***************************************************************************)
(* useElementInteraction.  A handler is an operator from the refs (c), the *)
(* rendered document and configuration and the event's arguments to the    *)
(* new refs and the actions it dispatches, in order.                       *)
(***************************************************************************)
Handled(c, actions) == [ctl |-> c, actions |-> actions]

\* Where the canvas sits on the page: getBoundingClientRect().
canvasRect == [left |-> 0, top |-> 0]

selectElement(selectedIds, id, additive) ==
  IF additive
  THEN IF \E i \in 1..Len(selectedIds) : selectedIds[i] = id
       THEN <<Act("SELECT_ELEMENTS", SelectSeq(selectedIds, LAMBDA i : i # id))>>
       ELSE <<Act("SELECT_ELEMENTS", Append(selectedIds, id))>>
  ELSE <<Act("SELECT_ELEMENTS", <<id>>)>>

clearSelection == <<Act("SELECT_ELEMENTS", <<>>)>>

startDrag(c, doc, cfg, elementId, mouseX, mouseY) ==
  LET element == FindElement(doc.elements, elementId)
      elX == RMul(element.position.x, cfg.scale)
      elY == RMul(element.position.y, cfg.scale)
      offsetX == RSub(RSub(R(mouseX), R(canvasRect.left)), elX)
      offsetY == RSub(RSub(R(mouseY), R(canvasRect.top)), elY)
  IN  IF element = Null THEN Handled(c, <<>>)
      ELSE IF isElementLocked(element, doc.layers) THEN Handled(c, <<>>)
      ELSE Handled(
             Spread(c, [isDragging |-> TRUE,
                        activeElementId |-> elementId,
                        dragStart |-> [x |-> mouseX, y |-> mouseY,
                                       elX |-> element.position.x,
                                       elY |-> element.position.y]]),
             <<Act("START_DRAG",
                   [elementId |-> elementId,
                    startPosition |-> element.position,
                    currentPosition |-> element.position,
                    offset |-> Pos(offsetX, offsetY)])>>)

\* element.dimensions.aspectLock ?? false
AspectLockOf(dimensions) ==
  IF "aspectLock" \in DOMAIN dimensions THEN dimensions.aspectLock ELSE FALSE

startResize(c, doc, elementId, handle, mouseX, mouseY) ==
  LET element == FindElement(doc.elements, elementId)
  IN  IF element = Null THEN Handled(c, <<>>)
      ELSE IF isElementLocked(element, doc.layers) THEN Handled(c, <<>>)
      ELSE Handled(
             Spread(c, [isResizing |-> TRUE,
                        activeElementId |-> elementId,
                        resizeStart |-> [handle |-> handle,
                                         mouseX |-> mouseX, mouseY |-> mouseY,
                                         elX |-> element.position.x,
                                         elY |-> element.position.y,
                                         elW |-> element.dimensions.width,
                                         elH |-> element.dimensions.height,
                                         aspectLock |-> AspectLockOf(element.dimensions)]]),
             <<Act("START_RESIZE",
                   [elementId |-> elementId,
                    handle |-> handle,
                    startDimensions |-> element.dimensions,
                    startPosition |-> element.position,
                    currentDimensions |-> element.dimensions])>>)

\* Math.round(v / gridSize) * gridSize
SnapToGrid(v, gridSize) == R(MathRound(RDiv(v, R(gridSize))) * gridSize)

\* handle.includes(side)
HandleIncludes(handle, side) ==
  CASE side = "top" -> handle \in {"top-left", "top", "top-right"}
    [] side = "bottom" -> handle \in {"bottom-left", "bottom", "bottom-right"}
    [] side = "left" -> handle \in {"top-left", "left", "bottom-left"}
    [] side = "right" -> handle \in {"top-right", "right", "bottom-right"}

\* The drag half of handleMouseMove: the candidate position.
DragPosition(c, cfg, clientX, clientY) ==
  LET dx == RDiv(R(clientX - c.dragStart.x), cfg.scale)
      dy == RDiv(R(clientY - c.dragStart.y), cfg.scale)
      newX == RAdd(c.dragStart.elX, dx)
      newY == RAdd(c.dragStart.elY, dy)
  IN  IF cfg.snapToGrid /\ cfg.gridSize > 0
      THEN Pos(SnapToGrid(newX, cfg.gridSize), SnapToGrid(newY, cfg.gridSize))
      ELSE Pos(newX, newY)

\* The resize half of handleMouseMove: the candidate width and height.
ResizeDimensions(c, cfg, clientX, clientY) ==
  LET rs == c.resizeStart
      dx == RDiv(R(clientX - rs.mouseX), cfg.scale)
      dy == RDiv(R(clientY - rs.mouseY), cfg.scale)
      w1 == IF HandleIncludes(rs.handle, "right")
            THEN RMax(R(10), RAdd(rs.elW, dx)) ELSE rs.elW
      w2 == IF HandleIncludes(rs.handle, "left")
            THEN RMax(R(10), RSub(rs.elW, dx)) ELSE w1
      h1 == IF HandleIncludes(rs.handle, "bottom")
            THEN RMax(R(10), RAdd(rs.elH, dy)) ELSE rs.elH
      h2 == IF HandleIncludes(rs.handle, "top")
            THEN RMax(R(10), RSub(rs.elH, dy)) ELSE h1
      ratio == RDiv(rs.elW, rs.elH)
      wide == RLess(RAbs(dy), RAbs(dx))
      w3 == IF rs.aspectLock /\ ~wide THEN RMul(h2, ratio) ELSE w2
      h3 == IF rs.aspectLock /\ wide THEN RDiv(w2, ratio) ELSE h2
  IN  IF cfg.snapToGrid /\ cfg.gridSize > 0
      THEN [width |-> SnapToGrid(w3, cfg.gridSize),
            height |-> SnapToGrid(h3, cfg.gridSize)]
      ELSE [width |-> w3, height |-> h3]

handleMouseMove(c, cfg, clientX, clientY) ==
  LET dragging == c.isDragging /\ c.dragStart # Null
      resizing == c.isResizing /\ c.resizeStart # Null
      pos == DragPosition(c, cfg, clientX, clientY)
      dims == ResizeDimensions(c, cfg, clientX, clientY)
  IN  Handled(
        Spread(Spread(c, IF dragging THEN [lastDragPos |-> pos] ELSE <<>>),
               IF resizing THEN [lastResizeDims |-> dims] ELSE <<>>),
        (IF dragging THEN <<Act("UPDATE_DRAG", pos)>> ELSE <<>>)
          \o (IF resizing THEN <<Act("UPDATE_RESIZE", dims)>> ELSE <<>>))

handleMouseUp(c) ==
  LET drag == c.isDragging /\ c.activeElementId # NoId /\ c.lastDragPos # Null
      resize == c.isResizing /\ c.activeElementId # NoId /\ c.lastResizeDims # Null
      c1 == IF drag
            THEN Spread(c, [isDragging |-> FALSE, dragStart |-> Null,
                            lastDragPos |-> Null])
            ELSE c
      c2 == IF resize
            THEN Spread(c1, [isResizing |-> FALSE, resizeStart |-> Null,
                             lastResizeDims |-> Null])
            ELSE c1
  IN  Handled(
        Spread(c2, [activeElementId |-> NoId]),
        (IF drag
         THEN <<Act("MOVE_ELEMENT",
                    [id |-> c.activeElementId, position |-> c.lastDragPos]),
                Act("END_DRAG", Null)>>
         ELSE <<>>)
          \o (IF resize
              THEN <<Act("RESIZE_ELEMENT",
                         [id |-> c.activeElementId,
                          dimensions |-> c.lastResizeDims,
                          position |-> Null]),
                     Act("END_RESIZE", Null)>>
              ELSE <<>>))

\* The actions of one handler run go through the host's dispatch in order.
RECURSIVE dispatchAll(_, _, _, _)
dispatchAll(h, s, actions, t) ==
  IF Len(actions) = 0 THEN s
  ELSE dispatchAll(h, dispatch(h, s, Head(actions), t), Tail(actions), t)


(***************************************************************************)
(* Spec: every action of the vocabulary dispatched to the host's reducers, *)
(* with payloads from small sets.  "zz" is an id no document holds.        *)
(***************************************************************************)
TargetIds == {"a", "zz"}

Init ==
  /\ host \in Hosts
  /\ store = Mount(host, Doc0)
  /\ ctl = ctl0
  /\ config = DEFAULT_ENGINE_CONFIG
  /\ now = 0
  /\ last = NoAction
  /\ pre = store
  /\ steps = 0
  /\ undos = 0
  /\ phase = "run"
  /\ gesture = Null
  /\ ord = Null

\* One dispatch of `action`, the reducer reading the clock as t.
Step(action, t) ==
  /\ steps < MaxSteps
  /\ store' = dispatch(host, store, action, t)
  /\ pre' = store
  /\ last' = action
  /\ now' = t
  /\ steps' = steps + 1
  /\ UNCHANGED <<host, ctl, config, undos, phase, gesture, ord>>

SetDocument == Step(Act("SET_DOCUMENT", Doc1), now)
UpdateElement ==
  \E id \in TargetIds :
    Step(Act("UPDATE_ELEMENT", [id |-> id, changes |-> [visible |-> FALSE]]), now)
MoveElement ==
  \E id \in TargetIds :
    Step(Act("MOVE_ELEMENT", [id |-> id, position |-> P(15, 25)]), now)
ResizeElement ==
  \E id \in TargetIds, position \in {Null, P(1, 2)} :
    Step(Act("RESIZE_ELEMENT",
             [id |-> id, dimensions |-> Dims(R(120), R(60), TRUE),
              position |-> position]), now)
AddElement == Step(Act("ADD_ELEMENT", ElC), now)
RemoveElement == \E id \in TargetIds : Step(Act("REMOVE_ELEMENT", id), now)
DuplicateElement ==
  \E id \in TargetIds, t \in now..(now + 1) : Step(Act("DUPLICATE_ELEMENT", id), t)
ReorderElement ==
  \E id \in TargetIds : Step(Act("REORDER_ELEMENT", [id |-> id, zIndex |-> 5]), now)
SetBackground == Step(Act("SET_BACKGROUND", [color |-> "red"]), now)
UpdateLayer ==
  \E id \in {"default", "zz"} :
    Step(Act("UPDATE_LAYER", [id |-> id, changes |-> [locked |-> TRUE]]), now)
SetVariable ==
  \E name \in {"v", "zz"} :
    Step(Act("SET_VARIABLE", [name |-> name, value |-> 1]), now)
SelectElements ==
  \E ids \in {<<>>, <<"a">>, <<"a", "b">>} : Step(Act("SELECT_ELEMENTS", ids), now)
HoverElement == \E id \in {"a", NoId} : Step(Act("HOVER_ELEMENT", id), now)
StartDrag ==
  Step(Act("START_DRAG",
           [elementId |-> "a", startPosition |-> P(10, 20),
            currentPosition |-> P(10, 20), offset |-> P(3, 4)]), now)
UpdateDrag == Step(Act("UPDATE_DRAG", P(15, 25)), now)
EndDrag == Step(Act("END_DRAG", Null), now)
StartResize ==
  Step(Act("START_RESIZE",
           [elementId |-> "a", handle |-> "right",
            startDimensions |-> Dims(R(100), R(50), TRUE),
            startPosition |-> P(10, 20),
            currentDimensions |-> Dims(R(100), R(50), TRUE)]), now)
UpdateResize == Step(Act("UPDATE_RESIZE", [width |-> R(120), height |-> R(60)]), now)
EndResize == Step(Act("END_RESIZE", Null), now)
Undo == Step(Act("UNDO", Null), now)
Redo == Step(Act("REDO", Null), now)
Batch ==
  \E actions \in {<< Act("MOVE_ELEMENT", [id |-> "a", position |-> P(15, 25)]),
                     Act("REMOVE_ELEMENT", "b") >>} :
    Step(Act("BATCH", actions), now)

Next ==
  \/ SetDocument \/ UpdateElement \/ MoveElement \/ ResizeElement
  \/ AddElement \/ RemoveElement \/ DuplicateElement \/ ReorderElement
  \/ SetBackground \/ UpdateLayer \/ SetVariable
  \/ SelectElements \/ HoverElement
  \/ StartDrag \/ UpdateDrag \/ EndDrag
  \/ StartResize \/ UpdateResize \/ EndResize
  \/ Undo \/ Redo \/ Batch

Spec == Init /\ [][Next]_vars

(***************************************************************************)
(* Claims about one reducer step (Spec).                                   *)
(***************************************************************************)
UndoAction == Act("UNDO", Null)
RedoAction == Act("REDO", Null)

\* The id an element-targeting action names.
TargetOf(action) ==
  IF action.type \in {"REMOVE_ELEMENT", "DUPLICATE_ELEMENT"}
  THEN action.payload ELSE action.payload.id

\* The action types whose reducer case ends in pushHistory / pushUndo.
PushTypes(h) ==
  IF h = "provider"
  THEN {"UPDATE_ELEMENT", "MOVE_ELEMENT", "RESIZE_ELEMENT", "ADD_ELEMENT",
        "REMOVE_ELEMENT", "DUPLICATE_ELEMENT", "REORDER_ELEMENT",
        "SET_BACKGROUND", "UPDATE_LAYER", "SET_VARIABLE"}
  ELSE {"UPDATE_ELEMENT", "MOVE_ELEMENT", "RESIZE_ELEMENT",
        "REMOVE_ELEMENT", "DUPLICATE_ELEMENT", "REORDER_ELEMENT"}

\* The latest dispatch was a history-pushing action (a DUPLICATE_ELEMENT
\* counts when the element it names exists: otherwise there is no change).
Pushed ==
  /\ last.type \in PushTypes(host)
  /\ last.type = "DUPLICATE_ELEMENT" => HasElement(Was.document.elements, last.payload)

\* C3: in any state with a non-empty history, UNDO then REDO gives back the
\* same document, history and future (and the rest of the host's state); in
\* any state with a non-empty future, REDO then UNDO does.
C3_RedoInvertsUndo ==
  /\ Len(Cur.history) > 0 =>
       dispatch(host, dispatch(host, store, UndoAction, now), RedoAction, now) = store
  /\ Len(Cur.future) > 0 =>
       dispatch(host, dispatch(host, store, RedoAction, now), UndoAction, now) = store

\* An UNDO has just acted and left both stacks non-empty.
C3_Witness ==
  /\ last.type = "UNDO"
  /\ Len(Was.history) > 1
  /\ Len(Cur.history) > 0
  /\ Len(Cur.future) > 0

\* C4: a history-pushing action leaves the pre-change document on top of the
\* history and an empty future stack, so that a REDO after it changes nothing.
C4_PushClearsFuture ==
  Pushed =>
    /\ Len(Cur.history) > 0
    /\ Cur.history[Len(Cur.history)] = Was.document
    /\ SubSeq(Cur.history, 1, Len(Cur.history) - 1) = SliceLast(Was.history, MAX_HISTORY)
    /\ Cur.future = <<>>
    /\ dispatch(host, store, RedoAction, now) = store

\* A new edit has been committed after an UNDO: a redo was pending.
C4_Witness ==
  /\ Pushed
  /\ Len(Was.future) > 0
  /\ Len(Was.history) > 0
  /\ Cur.document # Was.document

\* C5: an action that names an element the document does not hold changes
\* neither the document nor the history nor the future.
C5_AbsentIdIsNoOp ==
  ( /\ last.type \in {"UPDATE_ELEMENT", "MOVE_ELEMENT", "RESIZE_ELEMENT",
                      "REORDER_ELEMENT", "REMOVE_ELEMENT", "DUPLICATE_ELEMENT"}
    /\ ~HasElement(Was.document.elements, TargetOf(last)) )
  => Cur = Was

\* C6: UNDO on an empty history and REDO on an empty future return the state
\* they were given.
C6_EmptyStackNoOp ==
  /\ (last.type = "UNDO" /\ Len(Was.history) = 0) => store = pre
  /\ (last.type = "REDO" /\ Len(Was.future) = 0) => store = pre

\* UNDO was dispatched on an empty history while a redo was pending.
C6_Witness ==
  /\ last.type = "UNDO"
  /\ Len(Was.history) = 0
  /\ Len(Was.future) > 0

\* C7: UPDATE_DRAG and UPDATE_RESIZE leave the committed document as it was,
\* under either host.
C7_LiveUpdateKeepsDocument ==
  last.type \in {"UPDATE_DRAG", "UPDATE_RESIZE"} => Cur.document = Was.document

(***************************************************************************)
(* SpecLong: a long run of edits on one element, each moving it one unit   *)
(* to the right (what ArrowRight dispatches with step 1), then undone.     *)
(* `steps` counts the edits and `undos` the UNDOs dispatched after them;   *)
(* once a REDO or a later edit mixes in, phase is "mixed" and the counters *)
(* are reset: they no longer count anything.                               *)
(***************************************************************************)
InitLong ==
  /\ host \in Hosts
  /\ store = Mount(host, Doc0)
  /\ ctl = ctl0
  /\ config = DEFAULT_ENGINE_CONFIG
  /\ now = 0
  /\ last = NoAction
  /\ pre = store
  /\ steps = 0
  /\ undos = 0
  /\ phase = "commit"
  /\ gesture = Null
  /\ ord = Null

NudgeRight ==
  LET el == FindElement(Cur.document.elements, "a")
  IN  Act("MOVE_ELEMENT",
          [id |-> "a", position |-> Spread(el.position, [x |-> RAdd(el.position.x, R(1))])])

LongDispatch(action) ==
  /\ store' = dispatch(host, store, action, now)
  /\ pre' = store
  /\ last' = action
  /\ UNCHANGED <<host, ctl, config, now, gesture, ord>>

LongCommit ==
  /\ phase = "commit"
  /\ steps < MaxCommits
  /\ LongDispatch(NudgeRight)
  /\ steps' = steps + 1
  /\ UNCHANGED <<undos, phase>>

LongUndo ==
  /\ phase \in {"commit", "undo"}
  /\ undos < steps
  /\ LongDispatch(UndoAction)
  /\ undos' = undos + 1
  /\ phase' = "undo"
  /\ UNCHANGED steps

LongRedo ==
  /\ phase \in {"undo", "mixed"}
  /\ LongDispatch(RedoAction)
  /\ phase' = "mixed"
  /\ steps' = 0
  /\ undos' = 0

LongMixedUndo ==
  /\ phase = "mixed"
  /\ LongDispatch(UndoAction)
  /\ UNCHANGED <<steps, undos, phase>>

LongMixedCommit ==
  /\ phase \in {"undo", "mixed"}
  /\ RLess(FindElement(Cur.document.elements, "a").position.x, R(10 + MaxCommits))
  /\ LongDispatch(NudgeRight)
  /\ phase' = "mixed"
  /\ steps' = 0
  /\ undos' = 0

NextLong == LongCommit \/ LongUndo \/ LongRedo \/ LongMixedUndo \/ LongMixedCommit

SpecLong == InitLong /\ [][NextLong]_vars

\* C1: the undo history never holds more than 50 snapshots.
C1_HistoryCapped == Len(Cur.history) <= MAX_HISTORY

\* C2: after N edits (N no greater than the history cap) from a document D
\* with empty history, N UNDOs in a row give D back and empty the history.
C2_UndoAllRestores ==
  (phase \in {"commit", "undo"} /\ undos = steps /\ steps <= MAX_HISTORY) =>
    /\ Cur.document = Doc0
    /\ Cur.history = <<>>

\* As many edits as the cap allows have been made and all of them undone.
C2_Witness ==
  /\ phase = "undo"
  /\ steps = MAX_HISTORY
  /\ undos = steps
  /\ last.type = "UNDO"
  /\ Len(Cur.future) = MAX_HISTORY

(***************************************************************************)
(* SpecGesture: the controller driving a host: selection clicks, drags of  *)
(* an element by the pointer, and undo/redo.  `gesture` follows one drag   *)
(* from its startDrag to its pointer-up: the element, where it was, the    *)
(* history length then, whether the pointer moved and the last live        *)
(* position; any other event in between ends the bookkeeping.              *)
(* `steps` counts the drags started, at most MaxDrags, and edits stop once *)
(* the history holds MaxHist snapshots.                                    *)
(***************************************************************************)
GestureConfigs ==
  { DEFAULT_ENGINE_CONFIG,
    Spread(DEFAULT_ENGINE_CONFIG, [snapToGrid |-> TRUE, scale |-> Rat(5, 2)]) }

PointerDown == [x |-> 100, y |-> 100]
SelectClicks == { [id |-> "a", additive |-> FALSE], [id |-> "b", additive |-> TRUE] }
PointerMoves == { [x |-> 105, y |-> 105], [x |-> 93, y |-> 112] }

InitGesture ==
  /\ host \in Hosts
  /\ store = Mount(host, Doc0)
  /\ ctl = ctl0
  /\ config \in GestureConfigs
  /\ now = 0
  /\ last = NoAction
  /\ pre = store
  /\ steps = 0
  /\ undos = 0
  /\ phase = "run"
  /\ gesture = Null
  /\ ord = Null

Event(type, payload) == [type |-> type, payload |-> payload]

\* One event: the handler ran, giving `h` (new refs and dispatched actions).
Handle(event, h) ==
  /\ store' = dispatchAll(host, store, h.actions, now)
  /\ ctl' = h.ctl
  /\ pre' = store
  /\ last' = event
  /\ UNCHANGED <<host, config, now, undos, ord>>

GSelectElement ==
  \E click \in SelectClicks :
    LET id == click.id
        additive == click.additive
    IN
    /\ Handle(Event("selectElement", [id |-> id, additive |-> additive]),
              Handled(ctl, selectElement(SelectedIds(host, store), id, additive)))
    /\ UNCHANGED <<steps, phase>>
    /\ gesture' = Null

GClearSelection ==
  /\ Handle(Event("clearSelection", Null), Handled(ctl, clearSelection))
  /\ UNCHANGED <<steps, phase>>
  /\ gesture' = Null

GStartDrag ==
  \E id \in {"a", "b", "zz"} :
    LET h == startDrag(ctl, Cur.document, config, id, PointerDown.x, PointerDown.y)
    IN  /\ steps < MaxDrags
        /\ Handle(Event("startDrag", id), h)
        /\ steps' = steps + 1
        /\ UNCHANGED phase
        /\ gesture' =
             IF Len(h.actions) = 0 THEN Null
             ELSE [id |-> id,
                   startPosition |-> FindElement(Cur.document.elements, id).position,
                   historyLength |-> Len(Cur.history),
                   moved |-> FALSE,
                   livePosition |-> FindElement(Cur.document.elements, id).position,
                   done |-> FALSE]

GMouseMove ==
  \E m \in PointerMoves :
    LET h == handleMouseMove(ctl, config, m.x, m.y)
    IN  /\ config.mode = "preview"
        /\ Handle(Event("mousemove", m), h)
        /\ UNCHANGED <<steps, phase>>
        /\ gesture' =
             IF gesture = Null THEN Null
             ELSE IF gesture.done THEN Null
             ELSE Spread(gesture, [moved |-> TRUE, livePosition |-> h.ctl.lastDragPos])

GMouseUp ==
  /\ config.mode = "preview"
  /\ Len(Cur.history) < MaxHist
  /\ Handle(Event("mouseup", Null), handleMouseUp(ctl))
  /\ UNCHANGED <<steps, phase>>
  /\ gesture' =
       IF gesture = Null THEN Null
       ELSE IF gesture.done THEN Null
       ELSE Spread(gesture, [done |-> TRUE])

GUndo ==
  /\ Handle(Event("undo", Null), Handled(ctl, <<UndoAction>>))
  /\ UNCHANGED <<steps, phase>>
  /\ gesture' = Null

GRedo ==
  /\ Handle(Event("redo", Null), Handled(ctl, <<RedoAction>>))
  /\ UNCHANGED <<steps, phase>>
  /\ gesture' = Null

NextGesture ==
  \/ GSelectElement \/ GClearSelection \/ GStartDrag
  \/ GMouseMove \/ GMouseUp \/ GUndo \/ GRedo

SpecGesture == InitGesture /\ [][NextGesture]_vars

PositionOf(doc, id) == FindElement(doc.elements, id).position

\* C8: a drag in which the pointer moved, from startDrag to pointer-up, adds
\* exactly one history entry, commits the last live position, and one UNDO
\* after it puts the element back where it was at startDrag.
C8_DragIsOneUndoStep ==
  (gesture # Null /\ gesture.done /\ gesture.moved) =>
    /\ Len(Cur.history) = gesture.historyLength + 1
    /\ PositionOf(Cur.document, gesture.id) = gesture.livePosition
    /\ PositionOf(DocState(host, dispatch(host, store, UndoAction, now)).document,
                  gesture.id) = gesture.startPosition

(***************************************************************************)
(* JavaScript values met by the binding resolver: a tagged record per      *)
(* primitive type, strings as sequences of one-character strings, objects  *)
(* as functions from keys (character sequences) to values.  Each type      *)
(* keeps its payload under a field of its own.                             *)
(***************************************************************************)
Undefined == [t |-> "undefined"]
JsNull == [t |-> "null"]
NaN == [t |-> "nan"]
Str(s) == [t |-> "string", s |-> s]
Num(n) == [t |-> "number", n |-> n]
Bool(b) == [t |-> "boolean", b |-> b]
Obj(f) == [t |-> "object", o |-> f]
Fn(name) == [t |-> "function", f |-> name]

Digits == <<"0", "1", "2", "3", "4", "5", "6", "7", "8", "9">>

IsDigit(c) == \E i \in 1..10 : Digits[i] = c

DigitVal(c) == (CHOOSE i \in 1..10 : Digits[i] = c) - 1

RECURSIVE ParseDigits(_)
ParseDigits(s) ==
  IF s = <<>> THEN 0
  ELSE 10 * ParseDigits(DropLast(s)) + DigitVal(s[Len(s)])

RECURSIVE NatToChars(_)
NatToChars(n) ==
  IF n < 10 THEN <<Digits[n + 1]>>
  ELSE Append(NatToChars(n \div 10), Digits[(n % 10) + 1])

AllDigits(s) == s # <<>> /\ \A i \in 1..Len(s) : IsDigit(s[i])

\* String.prototype.trim, the blank being the only white space drawn
RECURSIVE trimStart(_)
trimStart(s) ==
  IF s # <<>> /\ s[1] = " " THEN trimStart(Tail(s)) ELSE s

RECURSIVE trimEnd(_)
trimEnd(s) ==
  IF s # <<>> /\ s[Len(s)] = " " THEN trimEnd(DropLast(s)) ELSE s

trim(s) == trimEnd(trimStart(s))

\* Number(v) on the values above; strings are decimal integers or not numbers
JsNumber(v) ==
  CASE v.t = "undefined" -> NaN
    [] v.t = "null" -> Num(0)
    [] v.t = "nan" -> NaN
    [] v.t = "boolean" -> Num(IF v.b THEN 1 ELSE 0)
    [] v.t = "number" -> v
    [] v.t = "string" ->
         LET s == trim(v.s)
         IN  IF s = <<>> THEN Num(0)
             ELSE IF AllDigits(s) THEN Num(ParseDigits(s))
             ELSE IF s[1] = "-" /\ AllDigits(Tail(s))
               THEN Num(0 - ParseDigits(Tail(s)))
             ELSE NaN
    [] OTHER -> NaN

\* String(v)
JsString(v) ==
  CASE v.t = "undefined" -> <<"u", "n", "d", "e", "f", "i", "n", "e", "d">>
    [] v.t = "null" -> <<"n", "u", "l", "l">>
    [] v.t = "nan" -> <<"N", "a", "N">>
    [] v.t = "boolean" ->
         IF v.b THEN <<"t", "r", "u", "e">> ELSE <<"f", "a", "l", "s", "e">>
    [] v.t = "number" ->
         IF v.n < 0 THEN <<"-">> \o NatToChars(0 - v.n) ELSE NatToChars(v.n)
    [] v.t = "string" -> v.s
    [] v.t = "function" ->
         <<"f", "u", "n", "c", "t", "i", "o", "n", " ">> \o v.f
         \o <<"(", ")", " ", "{", " ", "[", "n", "a", "t", "i", "v", "e", " ",
              "c", "o", "d", "e", "]", " ", "}">>
    [] OTHER ->
         <<"[", "o", "b", "j", "e", "c", "t", " ",
           "O", "b", "j", "e", "c", "t", "]">>

\* String.prototype.includes
Includes(s, sub) ==
  \E i \in 1..(Len(s) + 1) :
    /\ i + Len(sub) - 1 <= Len(s)
    /\ SubSeq(s, i, i + Len(sub) - 1) = sub

\* a === b
StrictEquals(a, b) == a.t # "nan" /\ a.t = b.t /\ a = b

\* a > b on the results of Number(): false when either is NaN
NumGreater(a, b) == a.t = "number" /\ b.t = "number" /\ a.n > b.n

\* path.split('.')
RECURSIVE Split(_)
Split(path) ==
  IF \A i \in 1..Len(path) : path[i] # "."
    THEN <<path>>
  ELSE LET k == CHOOSE i \in 1..Len(path) :
                  path[i] = "." /\ \A j \in 1..(i - 1) : path[j] # "."
       IN  <<SubSeq(path, 1, k - 1)>> \o Split(SubSeq(path, k + 1, Len(path)))

\* Members every object, string, number and boolean inherits from its
\* prototype; of these the model carries toString and valueOf.
InheritedKeys ==
  { <<"t", "o", "S", "t", "r", "i", "n", "g">>,
    <<"v", "a", "l", "u", "e", "O", "f">> }

\* acc[key], acc not null or undefined: own members first, then inherited
Member(acc, key) ==
  LET inherited == IF key \in InheritedKeys THEN Fn(key) ELSE Undefined
  IN  CASE acc.t = "object" ->
             IF key \in DOMAIN acc.o THEN acc.o[key] ELSE inherited
        [] acc.t = "string" ->
             IF key = <<"l", "e", "n", "g", "t", "h">> THEN Num(Len(acc.s))
             ELSE IF AllDigits(key) /\ ParseDigits(key) < Len(acc.s)
                     /\ NatToChars(ParseDigits(key)) = key
               THEN Str(<<acc.s[ParseDigits(key) + 1]>>)
             ELSE inherited
        [] acc.t = "function" ->
             IF key = <<"n", "a", "m", "e">> THEN Str(acc.f) ELSE inherited
        [] OTHER -> inherited

RECURSIVE getNestedKeys(_, _)
getNestedKeys(acc, keys) ==
  IF keys = <<>> THEN acc
  ELSE getNestedKeys(
         IF acc.t \in {"undefined", "null"} THEN Undefined
         ELSE Member(acc, Head(keys)),
         Tail(keys))

getNestedValue(obj, path) ==
  IF path = <<>> THEN Undefined ELSE getNestedKeys(obj, Split(path))

\* condition = [field, operator, value]; `value` is Undefined when left out
evaluateCondition(condition, data) ==
  LET value == getNestedValue(data, condition.field)
      empty == value.t \in {"undefined", "null"} \/ value = Str(<<>>)
  IN  CASE condition.operator = "exists" -> ~empty
        [] condition.operator = "notExists" -> empty
        [] condition.operator = "equals" ->
             StrictEquals(value, condition.value)
        [] condition.operator = "notEquals" ->
             ~StrictEquals(value, condition.value)
        [] condition.operator = "gt" ->
             NumGreater(JsNumber(value), JsNumber(condition.value))
        [] condition.operator = "lt" ->
             NumGreater(JsNumber(condition.value), JsNumber(value))
        [] condition.operator = "contains" ->
             Includes(JsString(value), JsString(condition.value))
        [] OTHER -> TRUE

(***************************************************************************)
(* layerManager.getOrderedElements                                         *)
(***************************************************************************)
Z_SLOTS == 1000

\* layerMap.get(id): the last layer of the list carrying the id, or Null
LayerOf(layers, id) ==
  IF \E i \in 1..Len(layers) : layers[i].id = id
    THEN layers[CHOOSE i \in 1..Len(layers) :
                  /\ layers[i].id = id
                  /\ \A j \in (i + 1)..Len(layers) : layers[j].id # id]
  ELSE Null

LayerOrder(layers, el) ==
  LET layer == LayerOf(layers, el.layerId)
  IN  IF layer = Null THEN 0 ELSE layer.order

CompositeKey_zIndexOnly(layers, el) == el.zIndex

CompositeKey(layers, el) == LayerOrder(layers, el) * Z_SLOTS + el.zIndex

\* a sort that puts an element before the earlier elements of equal key
RECURSIVE SortByKey_tiesReversed(_, _)
SortByKey_tiesReversed(s, layers) ==
  IF s = <<>> THEN <<>>
  ELSE LET rest == SortByKey_tiesReversed(DropLast(s), layers)
           x == s[Len(s)]
           n == Cardinality({i \in 1..Len(rest) :
                  CompositeKey(layers, rest[i]) < CompositeKey(layers, x)})
       IN  SubSeq(rest, 1, n) \o <<x>> \o SubSeq(rest, n + 1, Len(rest))

\* Array.prototype.sort with comparator keyA - keyB: stable, ascending
RECURSIVE SortByKey(_, _)
SortByKey(s, layers) ==
  IF s = <<>> THEN <<>>
  ELSE LET rest == SortByKey(DropLast(s), layers)
           x == s[Len(s)]
           n == Cardinality({i \in 1..Len(rest) :
                  CompositeKey(layers, rest[i]) <= CompositeKey(layers, x)})
       IN  SubSeq(rest, 1, n) \o <<x>> \o SubSeq(rest, n + 1, Len(rest))

\* getOrderedElements dropping the elements whose layerId names no layer
getOrderedElements_failClosed(elements, layers, data) ==
  LET LayerShown(el) ==
        LET layer == LayerOf(layers, el.layerId)
        IN  layer # Null /\ layer.visible
      Shown(el) == el.visible
      ConditionHolds(el) ==
        IF "condition" \in DOMAIN el
          THEN evaluateCondition(el.condition, data)
          ELSE TRUE
  IN  SortByKey(SelectSeq(SelectSeq(SelectSeq(elements, LayerShown), Shown),
                          ConditionHolds),
                layers)

getOrderedElements(elements, layers, data) ==
  LET LayerShown(el) ==
        LET layer == LayerOf(layers, el.layerId)
        IN  layer = Null \/ layer.visible
      Shown(el) == el.visible
      ConditionHolds(el) ==
        IF "condition" \in DOMAIN el
          THEN evaluateCondition(el.condition, data)
          ELSE TRUE
  IN  SortByKey(SelectSeq(SelectSeq(SelectSeq(elements, LayerShown), Shown),
                          ConditionHolds),
                layers)


(***************************************************************************)
(* SpecResize: one resize gesture: an optional selection click, then       *)
(* startResize on a handle, pointer moves, pointer-up.  The configuration  *)
(* (snap-to-grid, grid size) is drawn at the start; element "a" has        *)
(* aspectLock set, element "c" does not.                                   *)
(***************************************************************************)
DocR == [id |-> "doc", elements |-> <<ElA, ElC>>, layers |-> Layers0,
         background |-> [type |-> "solid", color |-> "white"],
         variables |-> <<>>]

ResizeConfigs ==
  { DEFAULT_ENGINE_CONFIG,
    Spread(DEFAULT_ENGINE_CONFIG, [snapToGrid |-> TRUE]),
    Spread(DEFAULT_ENGINE_CONFIG, [snapToGrid |-> TRUE, gridSize |-> 25]) }

ResizeHandles ==
  {"top-left", "top", "top-right", "left", "right",
   "bottom-left", "bottom", "bottom-right"}

\* Pointer positions after a press at (0, 0): small and large deltas.
ResizeMoves ==
  { [x |-> dx, y |-> dy] : dx \in {-95, 0, 20}, dy \in {-45, 0, 7} }

InitResize ==
  /\ host \in Hosts
  /\ store = Mount(host, DocR)
  /\ ctl = ctl0
  /\ config \in ResizeConfigs
  /\ now = 0
  /\ last = NoAction
  /\ pre = store
  /\ steps = 0
  /\ undos = 0
  /\ phase = "idle"
  /\ gesture = Null
  /\ ord = Null

RSelectElement ==
  \E id \in {"a", "c"} :
    /\ phase = "idle"
    /\ SelectedIds(host, store) = <<>>
    /\ Handle(Event("selectElement", [id |-> id, additive |-> FALSE]),
              Handled(ctl, selectElement(SelectedIds(host, store), id, FALSE)))
    /\ UNCHANGED <<steps, phase, gesture>>

RStartResize ==
  \E id \in {"a", "c"}, handle \in ResizeHandles :
    LET h == startResize(ctl, Cur.document, id, handle, 0, 0)
    IN  /\ phase = "idle"
        /\ Handle(Event("startResize", [id |-> id, handle |-> handle]), h)
        /\ phase' = "resizing"
        /\ gesture' = [id |-> id, handle |-> handle, moved |-> FALSE]
        /\ UNCHANGED steps

RMouseMove ==
  \E m \in ResizeMoves :
    /\ phase = "resizing"
    /\ config.mode = "preview"
    /\ Handle(Event("mousemove", m), handleMouseMove(ctl, config, m.x, m.y))
    /\ gesture' = Spread(gesture, [moved |-> TRUE])
    /\ UNCHANGED <<steps, phase>>

RMouseUp ==
  /\ phase = "resizing"
  /\ config.mode = "preview"
  /\ Handle(Event("mouseup", Null), handleMouseUp(ctl))
  /\ phase' = "done"
  /\ UNCHANGED <<steps, gesture>>

NextResize == RSelectElement \/ RStartResize \/ RMouseMove \/ RMouseUp

SpecResize == InitResize /\ [][NextResize]_vars

\* C10: the width and height a resize gesture commits are at least 10.
C10_ResizeKeepsFloor ==
  (phase = "done" /\ gesture.moved) =>
    LET d == FindElement(Cur.document.elements, gesture.id).dimensions
    IN  /\ ~RLess(d.width, R(10))
        /\ ~RLess(d.height, R(10))

(***************************************************************************)
(* SpecOrder: getOrderedElements applied to drawn inputs: three elements   *)
(* on two layers (and one dangling layerId), zIndex values at both ends of *)
(* a layer's slot range and below it, one element hidden or conditional.   *)
(***************************************************************************)
ZValues == {0 - (Z_SLOTS - 1), 0 - 1, 0, 1, Z_SLOTS \div 2, Z_SLOTS - 1}

OrderLayers(oLo, oHi) ==
  << [id |-> "lo", visible |-> TRUE, locked |-> FALSE, order |-> oLo],
     [id |-> "hi", visible |-> TRUE, locked |-> FALSE, order |-> oHi] >>

OrderData ==
  Obj([k \in {<<"e">>} |->
        Obj([f \in {<<"n">>} |-> Str(<<"4", "2">>)])])

OrderConditions ==
  { [field |-> <<"e", ".", "n">>, operator |-> "exists", value |-> Undefined],
    [field |-> <<"e", ".", "x">>, operator |-> "exists", value |-> Undefined] }

OrderEl(id, layerId, z) ==
  Spread(ElC, [id |-> id, name |-> id, layerId |-> layerId, zIndex |-> z])

ThirdElements ==
  LET base == { OrderEl("e3", l, z) : l \in {"lo", "ghost"},
                                      z \in {0, Z_SLOTS - 1} }
  IN  base
      \cup { Spread(e, [visible |-> FALSE]) : e \in base }
      \cup { Spread(e, [condition |-> c]) : e \in base, c \in OrderConditions }

OrderInputs ==
  { [elements |-> IF flip THEN <<e2, e3, e1>> ELSE <<e1, e2, e3>>,
     layers |-> OrderLayers(oLo, oHi),
     data |-> OrderData,
     result |-> Null] :
      flip \in BOOLEAN, oLo \in {0, 1}, oHi \in {1, 2},
      e1 \in { OrderEl("e1", "lo", z) : z \in ZValues },
      e2 \in { OrderEl("e2", "hi", z) : z \in ZValues },
      e3 \in ThirdElements }

InitOrder ==
  /\ host = "provider"
  /\ store = Mount(host, Doc0)
  /\ ctl = ctl0
  /\ config = DEFAULT_ENGINE_CONFIG
  /\ now = 0
  /\ last = NoAction
  /\ pre = store
  /\ steps = 0
  /\ undos = 0
  /\ phase = "idle"
  /\ gesture = Null
  /\ ord \in OrderInputs

GetOrderedElements ==
  /\ ord.result = Null
  /\ ord' = [ord EXCEPT
               !.result = getOrderedElements(ord.elements, ord.layers, ord.data)]
  /\ UNCHANGED <<host, store, ctl, config, now, last, pre, steps, undos,
                 phase, gesture>>

NextOrder == GetOrderedElements

SpecOrder == InitOrder /\ [][NextOrder]_vars

InSlots(z) == 0 <= z /\ z < Z_SLOTS

\* C9 (amended): of two output elements whose layers have different order
\* values, the one on the lower-order layer comes first whenever both zIndex
\* values lie in a layer's slot range 0..999.
C9_LayerOrderDominatesInSlots ==
  (ord # Null /\ ord.result # Null) =>
    \A i, j \in 1..Len(ord.result) :
      ( /\ LayerOrder(ord.layers, ord.result[i])
             < LayerOrder(ord.layers, ord.result[j])
        /\ InSlots(ord.result[i].zIndex)
        /\ InSlots(ord.result[j].zIndex) ) => i < j

\* C9 witness: an output in which the lower-layer element carries the top
\* slot and the higher-layer element the bottom slot, in layer order.
C9_Witness ==
  /\ ord # Null
  /\ ord.result # Null
  /\ \E i, j \in 1..Len(ord.result) :
       /\ i < j
       /\ LayerOrder(ord.layers, ord.result[i])
            < LayerOrder(ord.layers, ord.result[j])
       /\ ord.result[i].zIndex = Z_SLOTS - 1
       /\ ord.result[j].zIndex = 0

\* C9 as stated: the lower-order layer's element comes first for every pair
\* of zIndex values of magnitude below 1000.
C9_LayerOrderDominates ==
  (ord # Null /\ ord.result # Null) =>
    \A i, j \in 1..Len(ord.result) :
      ( /\ LayerOrder(ord.layers, ord.result[i])
             < LayerOrder(ord.layers, ord.result[j])
        /\ Abs(ord.result[i].zIndex) < Z_SLOTS
        /\ Abs(ord.result[j].zIndex) < Z_SLOTS ) => i < j

(***************************************************************************)
(* Claims about DUPLICATE_ELEMENT.                                         *)
(***************************************************************************)
\* The offset each reducer gives the copy: +10 (documentReducer), +8 (editor)
DuplicateDelta(h) == IF h = "provider" THEN R(10) ELSE R(8)

\* C11: DUPLICATE_ELEMENT on an existing id appends exactly one element, with
\* a different id, the name suffixed " (copy)" and the position offset by the
\* reducer's delta; the elements before it are unchanged and one history
\* entry (the document before) is pushed.
C11_DuplicateAppendsCopy ==
  ( /\ last.type = "DUPLICATE_ELEMENT"
    /\ HasElement(Was.document.elements, last.payload) ) =>
    LET old == Was.document.elements
        new == Cur.document.elements
        original == FindElement(old, last.payload)
        copy == new[Len(new)]
    IN  /\ Len(new) = Len(old) + 1
        /\ SubSeq(new, 1, Len(old)) = old
        /\ copy.id # last.payload
        /\ copy.name = original.name \o " (copy)"
        /\ copy.position =
             Spread(original.position,
               [x |-> RAdd(original.position.x, DuplicateDelta(host)),
                y |-> RAdd(original.position.y, DuplicateDelta(host))])
        /\ Cur.history = Append(Was.history, Was.document)

\* C11 witness: a duplicate of an existing element has just been dispatched
\* and the document grew by one element.
C11_Witness ==
  /\ last.type = "DUPLICATE_ELEMENT"
  /\ HasElement(Was.document.elements, last.payload)
  /\ Len(Cur.document.elements) = Len(Was.document.elements) + 1

(***************************************************************************)
(* SpecDup: nothing but DUPLICATE_ELEMENT, alone or two in one BATCH, on   *)
(* any element the document holds; the clock may or may not have advanced  *)
(* between two dispatches.                                                 *)
(***************************************************************************)
ElementIds(doc) == { doc.elements[i].id : i \in 1..Len(doc.elements) }

DupElement ==
  \E id \in ElementIds(Cur.document), t \in now..(now + 1) :
    Step(Act("DUPLICATE_ELEMENT", id), t)

DupBatch ==
  \E id1 \in ElementIds(Cur.document), id2 \in ElementIds(Cur.document) :
    /\ host = "provider"
    /\ Step(Act("BATCH", << Act("DUPLICATE_ELEMENT", id1),
                            Act("DUPLICATE_ELEMENT", id2) >>), now)

NextDup == DupElement \/ DupBatch

SpecDup == Init /\ [][NextDup]_vars

\* C12: no two elements of the document share an id.
C12_ElementIdsDistinct ==
  \A i, j \in 1..Len(Cur.document.elements) :
    Cur.document.elements[i].id = Cur.document.elements[j].id => i = j

(***************************************************************************)
(* bindingResolver.resolveBinding and the transform registry.              *)
(***************************************************************************)
LowerCase == <<"a", "b", "c", "d", "e", "f", "g", "h", "i", "j", "k", "l", "m",
               "n", "o", "p", "q", "r", "s", "t", "u", "v", "w", "x", "y", "z">>
UpperCase == <<"A", "B", "C", "D", "E", "F", "G", "H", "I", "J", "K", "L", "M",
               "N", "O", "P", "Q", "R", "S", "T", "U", "V", "W", "X", "Y", "Z">>

\* String.prototype.toUpperCase / toLowerCase, on the letters a..z
toUpperCase(s) ==
  [i \in 1..Len(s) |->
     IF \E k \in 1..26 : LowerCase[k] = s[i]
       THEN UpperCase[CHOOSE k \in 1..26 : LowerCase[k] = s[i]]
       ELSE s[i]]

toLowerCase(s) ==
  [i \in 1..Len(s) |->
     IF \E k \in 1..26 : UpperCase[k] = s[i]
       THEN LowerCase[CHOOSE k \in 1..26 : UpperCase[k] = s[i]]
       ELSE s[i]]

\* value ?? other
Coalesce(value, other) ==
  IF value.t \in {"undefined", "null"} THEN other ELSE value

\* JavaScript truthiness
Truthy(v) ==
  ~ \/ v.t \in {"undefined", "null", "nan"}
    \/ v = Str(<<>>)
    \/ v = Num(0)
    \/ v = Bool(FALSE)

T_uppercase == <<"u", "p", "p", "e", "r", "c", "a", "s", "e">>
T_lowercase == <<"l", "o", "w", "e", "r", "c", "a", "s", "e">>
T_trim == <<"t", "r", "i", "m">>

\* names registered by transforms.ts that the model carries
transforms == {T_uppercase, T_lowercase, T_trim}

\* transforms.get(name)(value, data)
ApplyTransform(name, value) ==
  LET s == JsString(Coalesce(value, Str(<<>>)))
  IN  CASE name = T_uppercase -> Str(toUpperCase(s))
        [] name = T_lowercase -> Str(toLowerCase(s))
        [] name = T_trim -> Str(trim(s))
        [] OTHER -> value

\* the token matched by /\{\{value\}\}/g
Placeholder == <<"{", "{", "v", "a", "l", "u", "e", "}", "}">>

\* index of the first occurrence of token in s at or after position i, or 0
FirstMatch(s, token, i) ==
  LET hits == { k \in i..(Len(s) - Len(token) + 1) :
                  SubSeq(s, k, k + Len(token) - 1) = token }
  IN  IF hits = {} THEN 0
      ELSE CHOOSE k \in hits : \A h \in hits : k <= h

\* The grave accent (U+0060) as a character of a string
Grave == "GRAVE"

\* The replacement string of String.prototype.replace: $$ inserts "$",
\* $& the match, $ with a grave accent the text before the match, $' the
\* text after it.
RECURSIVE ExpandReplacement(_, _, _, _)
ExpandReplacement(rep, before, match, after) ==
  IF rep = <<>> THEN <<>>
  ELSE IF rep[1] = "$" /\ Len(rep) >= 2 /\ rep[2] \in {"$", "&", Grave, "'"}
    THEN (CASE rep[2] = "$" -> <<"$">>
            [] rep[2] = "&" -> match
            [] rep[2] = Grave -> before
            [] OTHER -> after)
         \o ExpandReplacement(SubSeq(rep, 3, Len(rep)), before, match, after)
  ELSE <<rep[1]>> \o ExpandReplacement(Tail(rep), before, match, after)

\* s.replace(/token/g, rep), from position i of s on
RECURSIVE ReplaceFrom(_, _, _, _)
ReplaceFrom(s, i, token, rep) ==
  LET k == FirstMatch(s, token, i)
  IN  IF k = 0 THEN SubSeq(s, i, Len(s))
      ELSE SubSeq(s, i, k - 1)
           \o ExpandReplacement(rep, SubSeq(s, 1, k - 1), token,
                                SubSeq(s, k + Len(token), Len(s)))
           \o ReplaceFrom(s, k + Len(token), token, rep)

StringReplaceAll(s, token, rep) == ReplaceFrom(s, 1, token, rep)

\* binding = [field, transform, fallback, formatTemplate], a field left out
\* being Undefined
resolveBinding(binding, data) ==
  LET raw == getNestedValue(data, binding.field.s)
      value1 == IF raw.t \in {"undefined", "null"} \/ raw = Str(<<>>)
                  THEN Coalesce(binding.fallback, Str(<<>>))
                  ELSE raw
      value2 == IF Truthy(binding.transform)
                     /\ binding.transform.s \in transforms
                  THEN ApplyTransform(binding.transform.s, value1)
                  ELSE value1
  IN  IF Truthy(binding.formatTemplate)
        THEN Str(StringReplaceAll(binding.formatTemplate.s, Placeholder,
                                  JsString(value2)))
        ELSE value2

(***************************************************************************)
(* SpecBind: resolveBinding applied to drawn bindings and data: the field  *)
(* present, empty, null, missing or numeric; with and without fallback,    *)
(* transform (registered or not) and format template.                      *)
(***************************************************************************)
BindFields ==
  { Str(<<"e", ".", "n">>), Str(<<"e", ".", "x">>), Str(<<>>) }

BindValues ==
  { Str(<<"a", "b">>), Str(<<>>), Str(<<" ", "x", " ">>), Str(<<"$", "$">>),
    Str(<<"$", "&">>), JsNull, Num(7), Num(0), Bool(FALSE) }

BindFallbacks == { Undefined, Str(<<"f", "b">>), Str(<<>>) }

BindTransforms ==
  { Undefined, Str(T_uppercase), Str(T_trim), Str(<<"n", "o", "p", "e">>),
    Str(<<>>) }

BindTemplates ==
  { Undefined, Str(<<"#">> \o Placeholder),
    Str(Placeholder \o <<"-">> \o Placeholder),
    Str(<<"p", "l", "a", "i", "n">>), Str(<<>>) }

BindData(v) == Obj([k \in {<<"e">>} |-> Obj([f \in {<<"n">>} |-> v])])

BindInputs ==
  { [binding |-> [field |-> f, transform |-> tr, fallback |-> fb,
                  formatTemplate |-> tpl],
     data |-> BindData(v),
     result |-> Null] :
      f \in BindFields, v \in BindValues, fb \in BindFallbacks,
      tr \in BindTransforms, tpl \in BindTemplates }

InitBind ==
  /\ host = "provider"
  /\ store = Mount(host, Doc0)
  /\ ctl = ctl0
  /\ config = DEFAULT_ENGINE_CONFIG
  /\ now = 0
  /\ last = NoAction
  /\ pre = store
  /\ steps = 0
  /\ undos = 0
  /\ phase = "idle"
  /\ gesture = Null
  /\ ord \in BindInputs

ResolveBinding ==
  /\ ord.result = Null
  /\ ord' = [ord EXCEPT !.result = resolveBinding(ord.binding, ord.data)]
  /\ UNCHANGED <<host, store, ctl, config, now, last, pre, steps, undos,
                 phase, gesture>>

NextBind == ResolveBinding

SpecBind == InitBind /\ [][NextBind]_vars

\* Every occurrence of token in s, from position i on, replaced by rep as it is
RECURSIVE SubstituteFrom(_, _, _, _)
SubstituteFrom(s, i, token, rep) ==
  LET k == FirstMatch(s, token, i)
  IN  IF k = 0 THEN SubSeq(s, i, Len(s))
      ELSE SubSeq(s, i, k - 1) \o rep
           \o SubstituteFrom(s, k + Len(token), token, rep)

\* The value the four documented steps give, in their order
BindingSteps(binding, data) ==
  LET raw == getNestedValue(data, binding.field.s)
      afterFallback ==
        IF raw.t \in {"undefined", "null"} \/ raw = Str(<<>>)
          THEN (IF binding.fallback = Undefined THEN Str(<<>>)
                ELSE binding.fallback)
          ELSE raw
      afterTransform ==
        IF binding.transform # Undefined /\ binding.transform.s \in transforms
          THEN ApplyTransform(binding.transform.s, afterFallback)
          ELSE afterFallback
  IN  IF binding.formatTemplate # Undefined
           /\ binding.formatTemplate # Str(<<>>)
        THEN Str(SubstituteFrom(binding.formatTemplate.s, 1, Placeholder,
                                JsString(afterTransform)))
        ELSE afterTransform

\* C13: resolveBinding returns the value of the documented steps: fallback
\* (or the empty string) for an unresolved, null, undefined or empty value,
\* then the registered transform, then the format template with its
\* placeholder replaced by the stringified value.
C13_ResolveBindingSteps ==
  (ord # Null /\ ord.result # Null) =>
    ord.result = BindingSteps(ord.binding, ord.data)

(***************************************************************************)
(* SpecCond: evaluateCondition applied to drawn conditions and data: every *)
(* operator and an unknown one; the field present (strings, numbers, null) *)
(* or not; paths that are empty, miss a key, run through a primitive or    *)
(* name a member the data does not hold.                                   *)
(***************************************************************************)
CondFields ==
  { <<"e", ".", "n">>, <<"e", ".", "x">>, <<>>, <<"e", ".", "n", ".", "z">>,
    <<"q", ".", "z">>, <<"e", ".", "t", "o", "S", "t", "r", "i", "n", "g">> }

CondFieldValues ==
  { Str(<<"5">>), Str(<<"h", "e", "l", "l", "o">>), Str(<<>>), JsNull,
    Num(5), Num(0) }

CondOperators ==
  {"exists", "notExists", "equals", "notEquals", "gt", "lt", "contains",
   "matches"}

CondValues ==
  { Undefined, Num(3), Num(5), Str(<<"5">>), Str(<<"e", "l", "l">>) }

CondInputs ==
  { [condition |-> [field |-> f, operator |-> op, value |-> cv],
     data |-> BindData(v),
     result |-> Null] :
      f \in CondFields, op \in CondOperators, cv \in CondValues,
      v \in CondFieldValues }

InitCond ==
  /\ host = "provider"
  /\ store = Mount(host, Doc0)
  /\ ctl = ctl0
  /\ config = DEFAULT_ENGINE_CONFIG
  /\ now = 0
  /\ last = NoAction
  /\ pre = store
  /\ steps = 0
  /\ undos = 0
  /\ phase = "idle"
  /\ gesture = Null
  /\ ord \in CondInputs

EvaluateCondition ==
  /\ ord.result = Null
  /\ ord' = [ord EXCEPT
               !.result = Bool(evaluateCondition(ord.condition, ord.data))]
  /\ UNCHANGED <<host, store, ctl, config, now, last, pre, steps, undos,
                 phase, gesture>>

NextCond == EvaluateCondition

SpecCond == InitCond /\ [][NextCond]_vars

\* The value the data holds under a dot-path: each key must be a key of the
\* object reached so far; any other path is absent (Undefined).
RECURSIVE HeldUnderKeys(_, _)
HeldUnderKeys(acc, keys) ==
  IF keys = <<>> THEN acc
  ELSE IF acc.t = "object" /\ Head(keys) \in DOMAIN acc.o
    THEN HeldUnderKeys(acc.o[Head(keys)], Tail(keys))
  ELSE Undefined

HeldUnder(data, path) ==
  IF path = <<>> THEN Undefined ELSE HeldUnderKeys(data, Split(path))

\* The operator table over a field value and a comparison value
OperatorTable(operator, value, other) ==
  LET absent == value = Undefined \/ value = JsNull \/ value = Str(<<>>)
  IN  CASE operator = "exists" -> ~absent
        [] operator = "notExists" -> absent
        [] operator = "equals" -> StrictEquals(value, other)
        [] operator = "notEquals" -> ~StrictEquals(value, other)
        [] operator = "gt" -> NumGreater(JsNumber(value), JsNumber(other))
        [] operator = "lt" -> NumGreater(JsNumber(other), JsNumber(value))
        [] operator = "contains" -> Includes(JsString(value), JsString(other))
        [] OTHER -> TRUE

\* C14: evaluateCondition gives the operator table's answer on the value the
\* data holds under the field path, a missing or invalid path counting as an
\* absent value.
C14_OperatorTable ==
  (ord # Null /\ ord.result # Null) =>
    ord.result = Bool(OperatorTable(ord.condition.operator,
                                    HeldUnder(ord.data, ord.condition.field),
                                    ord.condition.value))

(***************************************************************************)
(* bindingResolver.applyBindingsToElement, over a heap of objects so that  *)
(* sharing and mutation show: the heap is a sequence, an address is an     *)
(* index into it, an element is a record whose props and style fields are *)
(* addresses of objects (functions from keys to values).                   *)
(***************************************************************************)
\* for (const [propPath, binding] of Object.entries(element.bindings))
\*   result[propPath] = resolveBinding(binding, data)
resolveElementBindings(element, data) ==
  IF "bindings" \notin DOMAIN element THEN <<>>
  ELSE [i \in 1..Len(element.bindings) |->
          [path |-> element.bindings[i].path,
           value |-> resolveBinding(element.bindings[i].binding, data)]]

\* let updated = { ...element } with the props object shared, not copied
InitialUpdate_sharesProps(heap, el) ==
  [heap |-> Append(heap, heap[el]), updated |-> Len(heap) + 1]

\* let updated = { ...element, props: { ...element.props } }
InitialUpdate(heap, el) ==
  LET withProps == Append(heap, heap[heap[el].props])
  IN  [heap |-> Append(withProps, Spread(heap[el], [props |-> Len(heap) + 1])),
       updated |-> Len(heap) + 2]

K_props == <<"p", "r", "o", "p", "s">>
K_style == <<"s", "t", "y", "l", "e">>

\* the loop over Object.entries(resolved)
RECURSIVE ApplyResolved(_, _, _)
ApplyResolved(heap, updated, resolved) ==
  IF resolved = <<>> THEN [heap |-> heap, result |-> updated]
  ELSE
    LET parts == Split(Head(resolved).path)
        value == Head(resolved).value
    IN  IF parts[1] = K_props /\ Len(parts) = 2
          THEN ApplyResolved(
                 [heap EXCEPT ![heap[updated].props] =
                    Spread(@, [k \in {parts[2]} |-> value])],
                 updated, Tail(resolved))
        ELSE IF parts[1] = K_style /\ Len(parts) = 2
          THEN LET withStyle ==
                     Append(heap, Spread(heap[heap[updated].style],
                                         [k \in {parts[2]} |-> value]))
               IN  ApplyResolved(
                     Append(withStyle,
                            Spread(heap[updated], [style |-> Len(heap) + 1])),
                     Len(heap) + 2, Tail(resolved))
        ELSE ApplyResolved(heap, updated, Tail(resolved))

\* returns the heap after the call and the address of the returned element
applyBindingsToElement(heap, el, data) ==
  IF "bindings" \notin DOMAIN heap[el] \/ Len(heap[el].bindings) = 0
    THEN [heap |-> heap, result |-> el]
  ELSE LET resolved == resolveElementBindings(heap[el], data)
           start == InitialUpdate(heap, el)
       IN  ApplyResolved(start.heap, start.updated, resolved)

(***************************************************************************)
(* SpecApply: applyBindingsToElement on an element with props and style    *)
(* objects of its own and up to two bindings, on paths that follow the     *)
(* props./style. convention and paths that do not.                         *)
(***************************************************************************)
K_content == <<"c", "o", "n", "t", "e", "n", "t">>
K_color == <<"c", "o", "l", "o", "r">>

ApplyPaths ==
  { K_props \o <<".">> \o K_content,
    K_style \o <<".">> \o K_color,
    K_style \o <<".", "x">>,
    K_props,
    K_props \o <<".", "a", ".", "b">>,
    <<"d", "a", "t", "a", ".", "x">> }

ApplyBindings ==
  { [field |-> Str(<<"e", ".", "n">>), transform |-> Undefined,
     fallback |-> Str(<<"f", "b">>), formatTemplate |-> Undefined],
    [field |-> Str(<<"e", ".", "n">>), transform |-> Str(T_uppercase),
     fallback |-> Undefined, formatTemplate |-> Str(<<"#">> \o Placeholder)] }

ApplyBindingLists ==
  {<<>>}
  \cup { <<[path |-> p, binding |-> b]>> : p \in ApplyPaths, b \in ApplyBindings }
  \cup { <<[path |-> pp[1], binding |-> b], [path |-> pp[2], binding |-> b]>> :
           pp \in {q \in ApplyPaths \X ApplyPaths : q[1] # q[2]},
           b \in ApplyBindings }

ApplyElement == [id |-> "a", name |-> "A", props |-> 2, style |-> 3]

ApplyProps == [k \in {K_content, <<"s", "r", "c">>} |->
                 IF k = K_content THEN Str(<<"o", "l", "d">>)
                 ELSE Str(<<"i", "m", "g">>)]

ApplyStyle == [k \in {K_color} |-> Str(<<"r", "e", "d">>)]

ApplyHeaps ==
  { <<ApplyElement, ApplyProps, ApplyStyle>> }
  \cup { <<Spread(ApplyElement, [bindings |-> bs]), ApplyProps, ApplyStyle>> :
           bs \in ApplyBindingLists }

ApplyInputs ==
  { [before |-> h, heap |-> h, element |-> 1, data |-> BindData(v),
     result |-> 0] :
      h \in ApplyHeaps, v \in {Str(<<"a", "b">>), Str(<<>>), Num(7)} }

InitApply ==
  /\ host = "provider"
  /\ store = Mount(host, Doc0)
  /\ ctl = ctl0
  /\ config = DEFAULT_ENGINE_CONFIG
  /\ now = 0
  /\ last = NoAction
  /\ pre = store
  /\ steps = 0
  /\ undos = 0
  /\ phase = "idle"
  /\ gesture = Null
  /\ ord \in ApplyInputs

ApplyBindingsToElement ==
  /\ ord.result = 0
  /\ LET r == applyBindingsToElement(ord.heap, ord.element, ord.data)
     IN  ord' = [ord EXCEPT !.heap = r.heap, !.result = r.result]
  /\ UNCHANGED <<host, store, ctl, config, now, last, pre, steps, undos,
                 phase, gesture>>

NextApply == ApplyBindingsToElement

SpecApply == InitApply /\ [][NextApply]_vars

\* obj with, for every resolved path prefix.<key> of two segments, in order,
\* key set to the resolved value
RECURSIVE Overridden(_, _, _)
Overridden(obj, prefix, resolved) ==
  IF resolved = <<>> THEN obj
  ELSE LET parts == Split(Head(resolved).path)
       IN  Overridden(
             IF Len(parts) = 2 /\ parts[1] = prefix
               THEN Spread(obj, [k \in {parts[2]} |-> Head(resolved).value])
               ELSE obj,
             prefix, Tail(resolved))

Without(rec, fields) == [k \in (DOMAIN rec) \ fields |-> rec[k]]

InputIndex(elements, id) ==
  CHOOSE i \in 1..Len(elements) : elements[i].id = id

\* C16: getOrderedElements gives one list for one (elements, layers, data):
\* ascending by composite key, two elements of equal key in their relative
\* input order.
C16_OrderDeterministicStable ==
  (ord # Null /\ ord.result # Null) =>
    /\ ord.result = getOrderedElements(ord.elements, ord.layers, ord.data)
    /\ \A i, j \in 1..Len(ord.result) :
         i < j =>
           /\ CompositeKey(ord.layers, ord.result[i])
                <= CompositeKey(ord.layers, ord.result[j])
           /\ CompositeKey(ord.layers, ord.result[i])
                = CompositeKey(ord.layers, ord.result[j])
              => InputIndex(ord.elements, ord.result[i].id)
                   < InputIndex(ord.elements, ord.result[j].id)

\* C16 witness: an output holding "e2" before "e1", the two of equal key,
\* from an input that lists "e2" first.
C16_Witness ==
  /\ ord # Null
  /\ ord.result # Null
  /\ ord.elements[1].id = "e2"
  /\ \E i, j \in 1..Len(ord.result) :
       /\ i < j
       /\ ord.result[i].id = "e2"
       /\ ord.result[j].id = "e1"
       /\ CompositeKey(ord.layers, ord.result[i])
            = CompositeKey(ord.layers, ord.result[j])

(***************************************************************************)
(* SpecLock: isElementLocked applied to drawn elements and layer lists: no *)
(* layer, one or two layers, locked or not, the element's layerId naming   *)
(* one of them or none.                                                    *)
(***************************************************************************)
LockLayer(id, locked) ==
  [id |-> id, visible |-> TRUE, locked |-> locked, order |-> 0]

LockLayerLists ==
  {<<>>}
  \cup { <<LockLayer(id, l)>> : id \in {"lo", "hi"}, l \in BOOLEAN }
  \cup { <<LockLayer(ids[1], l1), LockLayer(ids[2], l2)>> :
           ids \in {<<"lo", "hi">>, <<"hi", "lo">>},
           l1 \in BOOLEAN, l2 \in BOOLEAN }

LockInputs ==
  { [element |-> Spread(ElC, [locked |-> own, layerId |-> layerId]),
     layers |-> layers,
     result |-> Null] :
      own \in BOOLEAN, layerId \in {"lo", "hi", "ghost"},
      layers \in LockLayerLists }

InitLock ==
  /\ host = "provider"
  /\ store = Mount(host, Doc0)
  /\ ctl = ctl0
  /\ config = DEFAULT_ENGINE_CONFIG
  /\ now = 0
  /\ last = NoAction
  /\ pre = store
  /\ steps = 0
  /\ undos = 0
  /\ phase = "idle"
  /\ gesture = Null
  /\ ord \in LockInputs

IsElementLocked ==
  /\ ord.result = Null
  /\ ord' = [ord EXCEPT !.result = Bool(isElementLocked(ord.element, ord.layers))]
  /\ UNCHANGED <<host, store, ctl, config, now, last, pre, steps, undos,
                 phase, gesture>>

NextLock == IsElementLocked

SpecLock == InitLock /\ [][NextLock]_vars

\* C17: isElementLocked is true exactly when the element's own flag is set
\* or a layer with the element's layerId is in the list and is locked.
C17_LockedIffOwnOrLayer ==
  (ord # Null /\ ord.result # Null) =>
    ord.result =
      Bool(\/ ord.element.locked
           \/ \E i \in 1..Len(ord.layers) :
                /\ ord.layers[i].id = ord.element.layerId
                /\ ord.layers[i].locked)

\* C17 witness: an element with its own flag clear reported locked through
\* its layer.
C17_Witness ==
  /\ ord # Null
  /\ ord.result = Bool(TRUE)
  /\ ~ord.element.locked
  /\ \E i \in 1..Len(ord.layers) :
       ord.layers[i].id = ord.element.layerId /\ ord.layers[i].locked

(***************************************************************************)
(* templateBridge.legacyToDocument.  Of the elements the bridge creates    *)
(* the model carries the accents, the logo, the photo and the name (front) *)
(* and the logo, the fixed texts and the branches (back), each with an id,  *)
(* geometry, z-index, lock and bindings; `t1` and `t2` are the two clock   *)
(* readings of `new Date()`.  A background colour is the token "gradient"  *)
(* when its text includes 'gradient'.                                      *)
(***************************************************************************)
CARD_W == 153
CARD_H == 244
LOGO_ASPECT == Rat(42, 20)

\* the back-side text used when the template carries none
DEFAULT_BACK_TEXT ==
  [headquarterLabel |-> "Headquarter", headquarterLocation |-> "Location",
   headquarterAddress |-> "Address", branchesLabel |-> "Branches",
   branches |-> << [label |-> "Branch", address |-> "Address"] >>]

resolveTemplateDesign(design) ==
  Spread(design,
    [showLogo |-> IF "showLogo" \in DOMAIN design THEN design.showLogo ELSE TRUE,
     showPhoto |-> IF "showPhoto" \in DOMAIN design THEN design.showPhoto
                   ELSE TRUE])

convertBackground(design) ==
  IF design.backgroundColor = "gradient"
    THEN [type |-> "gradient", color |-> "#ffffff", opacity |-> 1]
  ELSE IF "backgroundPattern" \in DOMAIN design
          /\ design.backgroundPattern # "none"
    THEN [type |-> "pattern", color |-> design.backgroundColor, opacity |-> 1,
          pattern |-> IF design.backgroundPattern = "dots" THEN "dots"
                      ELSE "lines"]
  ELSE [type |-> "solid", color |-> design.backgroundColor, opacity |-> 1]

createAccentElement(accent, index) ==
  [id |-> "accent_" \o ToString(index), type |-> "shape",
   layerId |-> "default",
   position |-> P(accent.position.x, accent.position.y),
   dimensions |-> [width |-> R(accent.size.width),
                   height |-> R(accent.size.height)],
   zIndex |-> index, visible |-> TRUE, locked |-> TRUE, selectable |-> FALSE]

createFrontElements(design, template) ==
  LET accentCount == Len(design.accentElements)
      hasLogo == design.showLogo
      hasPhoto == design.showPhoto /\ design.photoSize.width > 0
      zPhoto == accentCount + 1 + (IF hasLogo THEN 1 ELSE 0)
      zName == zPhoto + (IF hasPhoto THEN 1 ELSE 0)
      logoEl ==
        [id |-> "logo", type |-> "logo", layerId |-> "default",
         position |-> P(design.logoPosition.x, design.logoPosition.y),
         dimensions |-> Dims(R(design.logoSize),
                             RDiv(R(design.logoSize), LOGO_ASPECT), TRUE),
         zIndex |-> accentCount + 1,
         visible |-> TRUE, locked |-> FALSE, selectable |-> TRUE]
      photoEl ==
        [id |-> "photo", type |-> "image", layerId |-> "default",
         position |-> P(design.photoPosition.x, design.photoPosition.y),
         dimensions |-> [width |-> R(design.photoSize.width),
                         height |-> R(design.photoSize.height)],
         zIndex |-> zPhoto,
         visible |-> TRUE, locked |-> FALSE, selectable |-> TRUE,
         bindings |-> << [path |-> "props.src",
                          binding |-> [field |-> "employee.photoBase64",
                                       fallback |-> ""]] >>]
      nameEl ==
        [id |-> "name", type |-> "text", layerId |-> "default",
         position |-> P(0, design.nameStyle.position.y),
         dimensions |-> [width |-> R(CARD_W), height |-> R(20)],
         zIndex |-> zName,
         visible |-> TRUE, locked |-> FALSE, selectable |-> TRUE,
         bindings |-> << [path |-> "props.content",
                          binding |-> [field |-> "employee.name",
                                       transform |-> "formatName",
                                       fallback |-> "Shreyas V."]] >>]
  IN  (IF hasLogo THEN <<logoEl>> ELSE <<>>)
      \o (IF hasPhoto THEN <<photoEl>> ELSE <<>>)
      \o <<nameEl>>

createBackElements(design, template) ==
  LET backText == IF "backText" \in DOMAIN template THEN template.backText
                  ELSE DEFAULT_BACK_TEXT
      accentCount == Len(design.accentElements)
      hasLogo == design.showLogo
      zLabel == accentCount + 1 + (IF hasLogo THEN 1 ELSE 0)
      logoEl ==
        [id |-> "back_logo", type |-> "logo", layerId |-> "default",
         position |-> P(design.logoPosition.x, 24),
         dimensions |-> Dims(R(design.logoSize),
                             RDiv(R(design.logoSize), LOGO_ASPECT), TRUE),
         zIndex |-> accentCount + 1,
         visible |-> TRUE, locked |-> TRUE, selectable |-> FALSE]
      text(id, x, y, w, h, z, content) ==
        [id |-> id, type |-> "text", layerId |-> "default",
         position |-> P(x, y),
         dimensions |-> [width |-> R(w), height |-> R(h)],
         zIndex |-> z,
         visible |-> TRUE, locked |-> TRUE, selectable |-> FALSE,
         content |-> content]
      fixedEls ==
        << text("hq_label", 15, 63, 123, 9, zLabel,
                backText.headquarterLabel),
           text("hq_location", 15, 78, 25, 9, zLabel + 1,
                backText.headquarterLocation),
           text("hq_address", 42, 78, 101, 28, zLabel + 2,
                backText.headquarterAddress),
           text("branches_label", 15, 110, 123, 9, zLabel + 3,
                backText.branchesLabel) >>
      branchEls ==
        [k \in 1..(2 * Len(backText.branches)) |->
           LET idx == (k - 1) \div 2
               branchTop == 124 + 40 * idx
           IN  IF k % 2 = 1
                 THEN text("branch_" \o ToString(idx) \o "_label",
                           15, branchTop, 30, 9, zLabel + 3 + k,
                           backText.branches[idx + 1].label)
                 ELSE text("branch_" \o ToString(idx) \o "_address",
                           48, branchTop, 97, 36, zLabel + 3 + k,
                           backText.branches[idx + 1].address)]
  IN  (IF hasLogo THEN <<logoEl>> ELSE <<>>) \o fixedEls \o branchEls

legacyToDocument(template, side, t1, t2) ==
  LET design == IF side = "front" THEN template.front ELSE template.back
      resolved == resolveTemplateDesign(design)
      accents == [i \in 1..Len(resolved.accentElements) |->
                    createAccentElement(resolved.accentElements[i], i - 1)]
  IN  [schemaVersion |-> 1,
       id |-> template.id \o "_" \o side,
       meta |-> [name |-> template.name \o " - " \o side,
                 description |-> template.description,
                 category |-> template.category,
                 createdAt |-> t1,
                 updatedAt |-> t2,
                 side |-> side],
       canvas |-> [width |-> CARD_W, height |-> CARD_H, gridSize |-> 5,
                   snapToGrid |-> FALSE],
       background |-> convertBackground(resolved),
       layers |-> << [id |-> "default", visible |-> TRUE, locked |-> FALSE,
                      order |-> 0] >>,
       elements |-> accents \o
                    (IF side = "front"
                       THEN createFrontElements(resolved, template)
                       ELSE createBackElements(resolved, template)),
       variables |-> <<>>,
       isReady |-> TRUE]

(***************************************************************************)
(* SpecBridge: one legacy template and side converted twice, the clock     *)
(* free to advance before, between and inside the conversions.  `ord`      *)
(* holds the template, the side and the two documents.                     *)
(***************************************************************************)
MaxClock == 2

BridgeAccents ==
  LET a1 == [type |-> "rect", position |-> [x |-> 0, y |-> 0],
             size |-> [width |-> 153, height |-> 40], color |-> "#0066CC"]
      a2 == [type |-> "circle", position |-> [x |-> 100, y |-> 200],
             size |-> [width |-> 30, height |-> 30], color |-> "#4A90E2"]
  IN  {<<>>, <<a1>>, <<a1, a2>>}

BridgeDesigns ==
  LET base == {[backgroundColor |-> bg, backgroundPattern |-> pat,
                accentElements |-> acc,
                logoSize |-> 42, logoPosition |-> [x |-> 55, y |-> 12],
                photoSize |-> [width |-> w, height |-> 80],
                photoPosition |-> [x |-> 44, y |-> 50],
                nameStyle |-> [position |-> [y |-> 140]]] :
                  bg \in {"#ffffff", "gradient"}, pat \in {"none", "dots"},
                  acc \in BridgeAccents, w \in {0, 64}}
      logo == base \cup {Spread(d, [showLogo |-> FALSE]) : d \in base}
  IN  logo \cup {Spread(d, [showPhoto |-> FALSE]) : d \in logo}

BridgeBackText ==
  [headquarterLabel |-> "HQ", headquarterLocation |-> "Pune",
   headquarterAddress |-> "1 Main Road", branchesLabel |-> "Offices",
   branches |-> << [label |-> "North", address |-> "2 High Street"],
                   [label |-> "South", address |-> "3 Low Street"] >>]

BridgeTemplates ==
  LET plain == {[id |-> "t1", name |-> "Classic", description |-> "classic",
                 category |-> "corporate", front |-> d, back |-> d] :
                   d \in BridgeDesigns}
  IN  plain \cup {Spread(t, [backText |-> BridgeBackText]) : t \in plain}

BridgeInputs ==
  {[template |-> t, side |-> sd, first |-> Null, second |-> Null] :
     t \in BridgeTemplates, sd \in {"front", "back"}}

InitBridge ==
  /\ host = "provider"
  /\ store = Mount(host, Doc0)
  /\ ctl = ctl0
  /\ config = DEFAULT_ENGINE_CONFIG
  /\ now = 0
  /\ last = NoAction
  /\ pre = store
  /\ steps = 0
  /\ undos = 0
  /\ phase = "idle"
  /\ gesture = Null
  /\ ord \in BridgeInputs

\* the wall clock advances
BridgeTick ==
  /\ now < MaxClock
  /\ now' = now + 1
  /\ UNCHANGED <<host, store, ctl, config, last, pre, steps, undos, phase,
                 gesture, ord>>

\* one call of legacyToDocument; the clock may advance between its two reads
Convert(slot) ==
  \E t2 \in now..(IF now < MaxClock THEN now + 1 ELSE now) :
    /\ ord' = [ord EXCEPT ![slot] =
                 legacyToDocument(ord.template, ord.side, now, t2)]
    /\ now' = t2
    /\ UNCHANGED <<host, store, ctl, config, last, pre, steps, undos, phase,
                   gesture>>

ConvertFirst == ord.first = Null /\ Convert("first")

ConvertSecond ==
  ord.first # Null /\ ord.second = Null /\ Convert("second")

NextBridge == BridgeTick \/ ConvertFirst \/ ConvertSecond

SpecBridge == InitBridge /\ [][NextBridge]_vars

\* a document with its two timestamps left out
SansTimestamps(doc) ==
  [doc EXCEPT !.meta = [name |-> doc.meta.name,
                        description |-> doc.meta.description,
                        category |-> doc.meta.category,
                        side |-> doc.meta.side]]

\* C18: two conversions of the same template and side, made at any two
\* times, yield structurally equal documents.
C18_ConversionsEqual ==
  (ord # Null /\ ord.first # Null /\ ord.second # Null) =>
    ord.first = ord.second

\* C18, the part that does hold: apart from meta.createdAt and
\* meta.updatedAt the two documents are equal (same element ids, geometry
\* and bindings).
C18_EqualButTimestamps ==
  (ord # Null /\ ord.first # Null /\ ord.second # Null) =>
    SansTimestamps(ord.first) = SansTimestamps(ord.second)

(***************************************************************************)
(* Background removal (removeImageBackground, removeImageBackgroundBulk).  *)
(* The system state `st` holds processedCache, the remove.bg API key, the  *)
(* singleton WASM loader and the calls in flight.  A call is a record      *)
(* with its arguments, its position `pc` (the await it is suspended at,    *)
(* "done" or "thrown"), the stages it has run, and its result or error.    *)
(* JavaScript runs one call at a time between awaits, so each action is    *)
(* the code from one await to the next.                                    *)
(***************************************************************************)
MaxCalls == 2

NoKey == ""
Keys == {"e1", "e2"}
Files == {[name |-> "a.jpg", transparent |-> FALSE],
          [name |-> "b.png", transparent |-> TRUE]}

BGRemovalResult(file, method) ==
  [file |-> file.name, method |-> method, processed |-> TRUE,
   hadTransparency |-> (method = "transparent")]

buildOriginalResult(file) == BGRemovalResult(file, "original")

\* processedCache.set(key, result), guarded by `if (cacheKey)`
CachePut(st, key, result) ==
  IF key # NoKey THEN [st EXCEPT !.cache[key] = result] ELSE st

\* a call returns `result`, storing it under its key first
Return(st, i, result) ==
  LET c == st.calls[i]
  IN  [CachePut(st, c.key, result) EXCEPT
         !.calls[i] = [c EXCEPT !.pc = "done", !.result = result]]

\* the call moves to the await `pc`, having started `stage`
Await(st, i, pc, stage) ==
  [st EXCEPT !.calls[i] = [@ EXCEPT !.pc = pc, !.ran = @ \cup {stage}]]

\* getWasmModel up to its await: the first caller starts the one load
getWasmModel(st, i) ==
  [st EXCEPT
     !.wasmCallers = @ \cup {i},
     !.wasm = IF @.failed \/ @.loaded \/ @.promise THEN @
              ELSE [@ EXCEPT !.promise = TRUE]]

\* processWithWASM up to its first await
processWithWASM(st, i) == Await(getWasmModel(st, i), i, "wasm_model", "wasm")

\* the catch block of removeImageBackground after remove.bg failed
removeImageBackground_catch(st, i, apiErr) ==
  processWithWASM([st EXCEPT !.calls[i].apiErr = apiErr], i)

removeImageBackgroundBulk_catch_fallsBack(st, i, apiErr) ==
  removeImageBackground_catch(st, i, apiErr)

\* the catch block of removeImageBackgroundBulk: throw to the caller
removeImageBackgroundBulk_catch(st, i, apiErr) ==
  [st EXCEPT !.calls[i] =
     [@ EXCEPT !.pc = "thrown", !.apiErr = apiErr,
               !.error = IF apiErr = "REMOVEBG_NO_KEY" THEN "BG_SKIP_NO_KEY"
                         ELSE "BG_FAIL"]]

NewCall(kind, file, key, pc, ran, result) ==
  [kind |-> kind, file |-> file, key |-> key, pc |-> pc, ran |-> ran,
   result |-> result, apiErr |-> "", error |-> ""]

\* removeImageBackground(file, faceBox, cacheKey) up to its first await
removeImageBackground(st, file, faceBox, cacheKey) ==
  LET call ==
        IF cacheKey # NoKey /\ st.cache[cacheKey] # Null
          THEN NewCall("single", file, cacheKey, "done", {},
                       st.cache[cacheKey])
        ELSE IF ~faceBox
          THEN NewCall("single", file, cacheKey, "face", {"face"}, Null)
        ELSE NewCall("single", file, cacheKey, "transparency",
                     {"transparency"}, Null)
  IN  [st EXCEPT !.calls = Append(@, call)]

\* removeImageBackgroundBulk(file, employeeId) up to its first await
removeImageBackgroundBulk(st, file, employeeId) ==
  LET call ==
        IF st.cache[employeeId] # Null
          THEN NewCall("bulk", file, employeeId, "done", {},
                       st.cache[employeeId])
        ELSE NewCall("bulk", file, employeeId, "transparency",
                     {"transparency"}, Null)
  IN  [st EXCEPT !.calls = Append(@, call)]

\* after `await hasTransparentBackground(file)`
afterTransparency(st, i) ==
  LET c == st.calls[i]
  IN  IF c.file.transparent
        THEN Return(st, i, BGRemovalResult(c.file, "transparent"))
        ELSE Await(st, i, "removebg", "removebg")

\* after `await safeRemoveBgAPI(file)`; `outcome` is "ok" or the error
afterRemoveBg(st, i, outcome) ==
  LET c == st.calls[i]
  IN  IF outcome = "ok"
        THEN Return(st, i, BGRemovalResult(c.file, "removebg"))
      ELSE IF c.kind = "single"
        THEN removeImageBackground_catch(st, i, outcome)
      ELSE removeImageBackgroundBulk_catch(st, i, outcome)

\* after `await getWasmModel()` in processWithWASM
afterWasmModel(st, i) ==
  IF st.wasm.loaded
    THEN Await(st, i, "wasm_run", "wasm")
    ELSE Return(st, i, buildOriginalResult(st.calls[i].file))

\* after the WASM run (and its clean-up) settled
afterWasmRun(st, i, ok) ==
  LET c == st.calls[i]
  IN  IF ok THEN Return(st, i, BGRemovalResult(c.file, "wasm"))
      ELSE Return(st, i, buildOriginalResult(c.file))

(***************************************************************************)
(* SpecBg: up to MaxCalls calls of the two entry points, started at any    *)
(* moment and interleaved at their awaits; `ord` is the system state.      *)
(***************************************************************************)
BgInit ==
  {[cache |-> [k \in Keys |-> Null], apiKey |-> a,
    wasm |-> [failed |-> FALSE, loaded |-> FALSE, promise |-> FALSE],
    wasmCallers |-> {}, calls |-> <<>>] : a \in BOOLEAN}

InitBg ==
  /\ host = "provider"
  /\ store = Mount(host, Doc0)
  /\ ctl = ctl0
  /\ config = DEFAULT_ENGINE_CONFIG
  /\ now = 0
  /\ last = NoAction
  /\ pre = store
  /\ steps = 0
  /\ undos = 0
  /\ phase = "idle"
  /\ gesture = Null
  /\ ord \in BgInit

BgFrame ==
  UNCHANGED <<host, store, ctl, config, now, last, pre, steps, undos, phase,
              gesture>>

At(pc) == {i \in 1..Len(ord.calls) : ord.calls[i].pc = pc}

CallSingle ==
  /\ Len(ord.calls) < MaxCalls
  /\ \E file \in Files, faceBox \in BOOLEAN, cacheKey \in Keys \cup {NoKey} :
       ord' = removeImageBackground(ord, file, faceBox, cacheKey)
  /\ BgFrame

CallBulk ==
  /\ Len(ord.calls) < MaxCalls
  /\ \E file \in Files, employeeId \in Keys :
       ord' = removeImageBackgroundBulk(ord, file, employeeId)
  /\ BgFrame

FaceSettled ==
  /\ \E i \in At("face") :
       ord' = Await(ord, i, "transparency", "transparency")
  /\ BgFrame

TransparencySettled ==
  /\ \E i \in At("transparency") : ord' = afterTransparency(ord, i)
  /\ BgFrame

RemoveBgSettled ==
  /\ \E i \in At("removebg") :
       \E outcome \in (IF ord.apiKey THEN {"ok", "remove.bg 500"}
                       ELSE {"REMOVEBG_NO_KEY"}) :
         ord' = afterRemoveBg(ord, i, outcome)
  /\ BgFrame

WasmLoadSettled ==
  /\ ord.wasm.promise /\ ~ord.wasm.loaded /\ ~ord.wasm.failed
  /\ \E ok \in BOOLEAN :
       ord' = [ord EXCEPT !.wasm = [@ EXCEPT !.loaded = ok, !.failed = ~ok]]
  /\ BgFrame

WasmModelSettled ==
  /\ ord.wasm.loaded \/ ord.wasm.failed
  /\ \E i \in At("wasm_model") : ord' = afterWasmModel(ord, i)
  /\ BgFrame

WasmRunSettled ==
  /\ \E i \in At("wasm_run"), ok \in BOOLEAN : ord' = afterWasmRun(ord, i, ok)
  /\ BgFrame

NextBg ==
  \/ CallSingle
  \/ CallBulk
  \/ FaceSettled
  \/ TransparencySettled
  \/ RemoveBgSettled
  \/ WasmLoadSettled
  \/ WasmModelSettled
  \/ WasmRunSettled

SpecBg == InitBg /\ [][NextBg]_vars

PipelineStages == {"transparency", "removebg", "wasm"}

\* the calls that ran some stage of the pipeline for `key`
Processed(key) ==
  {i \in 1..Len(ord.calls) :
     ord.calls[i].key = key /\ ord.calls[i].ran \cap PipelineStages # {}}

\* C19: for each key the pipeline runs at most once, over every interleaving
\* of calls carrying that key.
C19_PipelineOncePerKey ==
  ord # Null => \A key \in Keys : Cardinality(Processed(key)) <= 1

PointerUp ==
  LET h == handleMouseUp(ctl)
  IN  [ctl |-> h.ctl, actions |-> h.actions,
       store |-> dispatchAll(host, store, h.actions, now)]

\* a pointer-up that commits the drag of `id` and leaves no drag in flight
EndsDrag(up, id) ==
  /\ Len(up.actions) = 2
  /\ up.actions[1].type = "MOVE_ELEMENT"
  /\ up.actions[1].payload.id = id
  /\ up.actions[2].type = "END_DRAG"
  /\ ~up.ctl.isDragging
  /\ host = "provider" => up.store.sel.dragState = Null

\* C21: while a drag started by startDrag is in flight, the next pointer-up
\* dispatches one MOVE_ELEMENT followed by END_DRAG and leaves no drag in
\* flight, whether or not the pointer moved since the press.
C21_PointerUpEndsDrag ==
  (gesture # Null /\ ~gesture.done) => EndsDrag(PointerUp, gesture.id)

\* C21, the part that does hold: once the pointer has moved, the pointer-up
\* commits and ends the drag.
C21_PointerUpEndsMovedDrag ==
  (gesture # Null /\ ~gesture.done /\ gesture.moved) =>
    EndsDrag(PointerUp, gesture.id)

(***************************************************************************)
(* SpecPointer: startDrag, startResize, pointer-move and pointer-up in any *)
(* order on the unlocked elements "a" and "c", up to MaxEvents events;     *)
(* `steps` counts them.                                                    *)
(***************************************************************************)
MaxEvents == 4

InitPointer ==
  /\ host \in Hosts
  /\ store = Mount(host, DocR)
  /\ ctl = ctl0
  /\ config = DEFAULT_ENGINE_CONFIG
  /\ now = 0
  /\ last = NoAction
  /\ pre = store
  /\ steps = 0
  /\ undos = 0
  /\ phase = "run"
  /\ gesture = Null
  /\ ord = Null

\* One event counted; `gesture` keeps the refs before it.
PointerEvent(event, h) ==
  /\ steps < MaxEvents
  /\ Handle(event, h)
  /\ steps' = steps + 1
  /\ gesture' = ctl
  /\ UNCHANGED phase

PStartDrag ==
  \E id \in {"a", "c"} :
    PointerEvent(Event("startDrag", id),
                 startDrag(ctl, Cur.document, config, id,
                           PointerDown.x, PointerDown.y))

PStartResize ==
  \E id \in {"a", "c"}, handle \in {"right", "top-left"} :
    PointerEvent(Event("startResize", id),
                 startResize(ctl, Cur.document, id, handle,
                             PointerDown.x, PointerDown.y))

PMouseMove ==
  \E m \in PointerMoves :
    /\ config.mode = "preview"
    /\ PointerEvent(Event("mousemove", m),
                    handleMouseMove(ctl, config, m.x, m.y))

PMouseUp ==
  /\ config.mode = "preview"
  /\ PointerEvent(Event("mouseup", Null), handleMouseUp(ctl))

NextPointer == PStartDrag \/ PStartResize \/ PMouseMove \/ PMouseUp

SpecPointer == InitPointer /\ [][NextPointer]_vars

\* C22: a drag and a resize are never in flight together, in the
\* controller's refs or in the provider's dragState and resizeState, and a
\* startDrag or startResize for another element than the one in flight
\* changes nothing.
C22_OneGestureAtATime ==
  /\ ~(ctl.isDragging /\ ctl.isResizing)
  /\ host = "provider" =>
       ~(store.sel.dragState # Null /\ store.sel.resizeState # Null)
  /\ (/\ last.type \in {"startDrag", "startResize"}
      /\ gesture.activeElementId # NoId
      /\ gesture.activeElementId # last.payload)
       => (ctl = gesture /\ store = pre)

\* C23: after SET_DOCUMENT the provider's dragState and resizeState are
\* null, whatever gesture was in progress before it.
C23_SetDocumentDiscardsGesture ==
  (last.type = "SET_DOCUMENT" /\ host = "provider") =>
    /\ store.sel.dragState = Null
    /\ store.sel.resizeState = Null

\* C24: BATCH(actions) leaves the host in the state that dispatching the
\* constituent actions one at a time, in order, would have left it in.
C24_BatchIsFold ==
  last.type = "BATCH" => store = dispatchAll(host, pre, last.payload, now)

\* C24, the part that does hold: on the provider a BATCH of document
\* actions equals their sequential dispatch.
C24_ProviderBatchIsFold ==
  (last.type = "BATCH" /\ host = "provider") =>
    store = dispatchAll(host, pre, last.payload, now)

\* C25: the action just dispatched, applied again to the state it was
\* applied to but at a later time, gives the same resulting state.
C25_ReducerPure ==
  last.type # "INIT" =>
    dispatch(host, pre, last, now) = dispatch(host, pre, last, now + 1)

\* C25, the part that does hold: every action other than DUPLICATE_ELEMENT
\* gives the same state whenever it is applied.
C25_PureButDuplicate ==
  last.type \notin {"INIT", "DUPLICATE_ELEMENT"} =>
    dispatch(host, pre, last, now) = dispatch(host, pre, last, now + 1)

(***************************************************************************)
(* SpecFilter: getOrderedElements applied to three elements, each on a     *)
(* visible layer, a hidden layer or a layerId no layer carries, shown or   *)
(* hidden, and with no condition, a condition that holds or one that does  *)
(* not.  `ord.called` tells that the call was made.                        *)
(***************************************************************************)
FilterLayers ==
  << [id |-> "lo", visible |-> TRUE, locked |-> FALSE, order |-> 0],
     [id |-> "hid", visible |-> FALSE, locked |-> FALSE, order |-> 1] >>

FilterElements(id, z) ==
  LET base == { Spread(OrderEl(id, l, z), [visible |-> v]) :
                  l \in {"lo", "hid", "ghost"}, v \in BOOLEAN }
  IN  base \cup { Spread(e, [condition |-> c]) :
                    e \in base, c \in OrderConditions }

FilterInputs ==
  { [elements |-> <<e1, e2, e3>>, layers |-> FilterLayers,
     data |-> OrderData, called |-> FALSE, result |-> <<>>] :
      e1 \in FilterElements("e1", 2),
      e2 \in FilterElements("e2", 1),
      e3 \in FilterElements("e3", 0) }

InitFilter ==
  /\ host = "provider"
  /\ store = Mount(host, Doc0)
  /\ ctl = ctl0
  /\ config = DEFAULT_ENGINE_CONFIG
  /\ now = 0
  /\ last = NoAction
  /\ pre = store
  /\ steps = 0
  /\ undos = 0
  /\ phase = "idle"
  /\ gesture = Null
  /\ ord \in FilterInputs

FilterElementsCall ==
  /\ ~ord.called
  /\ ord' = [ord EXCEPT
               !.called = TRUE,
               !.result = getOrderedElements(ord.elements, ord.layers, ord.data)]
  /\ UNCHANGED <<host, store, ctl, config, now, last, pre, steps, undos,
                 phase, gesture>>

NextFilter == FilterElementsCall

SpecFilter == InitFilter /\ [][NextFilter]_vars

\* the three filters as the claim words them
PassesFilters(el, layers, data) ==
  /\ \A i \in 1..Len(layers) :
       layers[i].id = el.layerId => layers[i].visible
  /\ el.visible
  /\ "condition" \in DOMAIN el => evaluateCondition(el.condition, data)

\* C26: the result holds exactly the input elements that pass the three
\* filters, each once: none dropped, none added.
C26_ExactlyThePassing ==
  (ord # Null /\ ord.called) =>
    LET passing == {i \in 1..Len(ord.elements) :
                      PassesFilters(ord.elements[i], ord.layers, ord.data)}
    IN  /\ Len(ord.result) = Cardinality(passing)
        /\ \A i \in passing :
             \E j \in 1..Len(ord.result) : ord.result[j] = ord.elements[i]
        /\ \A j \in 1..Len(ord.result) :
             \E i \in passing : ord.result[j] = ord.elements[i]

\* C26 witness: an element on a hidden layer, one with a dangling layerId
\* whose condition holds and one on a visible layer whose condition fails;
\* the result is the dangling one alone.
C26_Witness ==
  /\ ord # Null
  /\ ord.called
  /\ ord.elements[1].layerId = "hid" /\ ord.elements[1].visible
  /\ ord.elements[2].layerId = "ghost" /\ ord.elements[2].visible
  /\ "condition" \in DOMAIN ord.elements[2]
  /\ ord.elements[3].layerId = "lo" /\ ord.elements[3].visible
  /\ "condition" \in DOMAIN ord.elements[3]
  /\ ord.result = <<ord.elements[2]>>

TransientTypes ==
  {"SELECT_ELEMENTS", "HOVER_ELEMENT", "START_DRAG", "UPDATE_DRAG",
   "END_DRAG", "START_RESIZE", "UPDATE_RESIZE", "END_RESIZE"}

\* C27: a selection or gesture action leaves the history stack and the
\* future stack as they were.
C27_TransientKeepsStacks ==
  last.type \in TransientTypes =>
    /\ Cur.history = Was.history
    /\ Cur.future = Was.future

\* C27 witness: a live drag update moved the selected element in the
\* editor, after an edit, and the history did not grow.
C27_Witness ==
  /\ last.type = "UPDATE_DRAG"
  /\ host = "editor"
  /\ Cur.document # Was.document
  /\ Len(Cur.history) > 0
  /\ Cur.history = Was.history

(***************************************************************************)
(* The keyboard handler of useElementInteraction and the editor's toolbar. *)
(* A key event is [key, shiftKey, ctrlKey, metaKey]; the handler reads the *)
(* selection and the document of the last render.                          *)
(***************************************************************************)
\* the keydown listener is installed
KeyboardEnabled(cfg) == cfg.enableKeyboard /\ cfg.mode = "preview"

\* the step with the grid taking precedence over Shift
KeyStep_gridFirst(cfg, e) ==
  IF cfg.snapToGrid THEN cfg.gridSize ELSE IF e.shiftKey THEN 10 ELSE 1

\* e.shiftKey ? 10 : (config.snapToGrid ? config.gridSize : 1)
KeyStep(cfg, e) ==
  IF e.shiftKey THEN 10 ELSE IF cfg.snapToGrid THEN cfg.gridSize ELSE 1

ArrowKeys == {"ArrowUp", "ArrowDown", "ArrowLeft", "ArrowRight"}

\* { ...el.position, y: el.position.y - step } and its three siblings
ArrowPosition(position, key, step) ==
  CASE key = "ArrowUp" -> Spread(position, [y |-> RSub(position.y, R(step))])
    [] key = "ArrowDown" -> Spread(position, [y |-> RAdd(position.y, R(step))])
    [] key = "ArrowLeft" -> Spread(position, [x |-> RSub(position.x, R(step))])
    [] key = "ArrowRight" -> Spread(position, [x |-> RAdd(position.x, R(step))])

\* the loop over selectedIds of one arrow key
ArrowMoves(selectedIds, doc, key, step) ==
  LET Movable(id) ==
        LET el == FindElement(doc.elements, id)
        IN  el # Null /\ ~isElementLocked(el, doc.layers)
      ids == SelectSeq(selectedIds, Movable)
  IN  [i \in 1..Len(ids) |->
         Act("MOVE_ELEMENT",
             [id |-> ids[i],
              position |-> ArrowPosition(
                FindElement(doc.elements, ids[i]).position, key, step)])]

\* one action of `type` per selected id
ForEachSelected(selectedIds, type) ==
  [i \in 1..Len(selectedIds) |-> Act(type, selectedIds[i])]

\* handleKeyDown: the actions it dispatches, in order
handleKeyDown(selectedIds, doc, cfg, e) ==
  IF Len(selectedIds) = 0 THEN <<>>
  ELSE CASE e.key \in ArrowKeys ->
              ArrowMoves(selectedIds, doc, e.key, KeyStep(cfg, e))
         [] e.key \in {"Delete", "Backspace"} ->
              Append(ForEachSelected(selectedIds, "REMOVE_ELEMENT"),
                     Act("SELECT_ELEMENTS", <<>>))
         [] e.key = "z" ->
              IF e.ctrlKey \/ e.metaKey THEN <<UndoAction>> ELSE <<>>
         [] e.key = "y" ->
              IF e.ctrlKey \/ e.metaKey THEN <<RedoAction>> ELSE <<>>
         [] e.key = "d" ->
              IF e.ctrlKey \/ e.metaKey
                THEN ForEachSelected(selectedIds, "DUPLICATE_ELEMENT")
                ELSE <<>>
         [] OTHER -> <<>>

\* the editor's toolbar callbacks
handleUndo == <<UndoAction>>
handleRedo == <<RedoAction>>
handleDelete(selectedIds) ==
  Append(ForEachSelected(selectedIds, "REMOVE_ELEMENT"),
         Act("SELECT_ELEMENTS", <<>>))
handleDuplicate(selectedIds) ==
  ForEachSelected(selectedIds, "DUPLICATE_ELEMENT")

(***************************************************************************)
(* SpecKeys: selection clicks, key presses and (in the editor) toolbar     *)
(* buttons, up to MaxKeys events.  Element "a" is free, "b" sits on a      *)
(* locked layer and "c" carries its own lock.  `gesture` holds the actions *)
(* the last event dispatched.                                              *)
(***************************************************************************)
MaxKeys == 4

DocK == [id |-> "doc", elements |-> <<ElA, ElB, Spread(ElC, [locked |-> TRUE])>>,
         layers |-> Layers0,
         background |-> [type |-> "solid", color |-> "white"],
         variables |-> <<>>]

KeyConfigs ==
  { DEFAULT_ENGINE_CONFIG,
    Spread(DEFAULT_ENGINE_CONFIG, [snapToGrid |-> TRUE]) }

KeyEvents ==
  { [key |-> k, shiftKey |-> sh, ctrlKey |-> FALSE, metaKey |-> FALSE] :
      k \in ArrowKeys, sh \in BOOLEAN }
  \cup { [key |-> k, shiftKey |-> FALSE, ctrlKey |-> FALSE, metaKey |-> FALSE] :
           k \in {"Delete", "Backspace", "z"} }
  \cup { [key |-> k, shiftKey |-> FALSE, ctrlKey |-> c, metaKey |-> ~c] :
           k \in {"z", "y", "d"}, c \in BOOLEAN }

KeyClicks ==
  { [id |-> "a", additive |-> FALSE], [id |-> "b", additive |-> TRUE],
    [id |-> "c", additive |-> TRUE] }

InitKeys ==
  /\ host \in Hosts
  /\ store = Mount(host, DocK)
  /\ ctl = ctl0
  /\ config \in KeyConfigs
  /\ now = 0
  /\ last = NoAction
  /\ pre = store
  /\ steps = 0
  /\ undos = 0
  /\ phase = "run"
  /\ gesture = Null
  /\ ord = Null

\* One event counted, its actions dispatched and remembered.
KeysEvent(event, actions) ==
  /\ steps < MaxKeys
  /\ Handle(event, Handled(ctl, actions))
  /\ steps' = steps + 1
  /\ gesture' = [actions |-> actions]
  /\ UNCHANGED phase

KSelectElement ==
  \E click \in KeyClicks :
    KeysEvent(Event("selectElement", click),
              selectElement(SelectedIds(host, store), click.id, click.additive))

KKeyDown ==
  \E e \in KeyEvents :
    /\ KeyboardEnabled(config)
    /\ KeysEvent(Event("keydown", e),
                 handleKeyDown(SelectedIds(host, store), Cur.document, config, e))

TUndo == host = "editor" /\ KeysEvent(Event("toolbarUndo", Null), handleUndo)

TRedo == host = "editor" /\ KeysEvent(Event("toolbarRedo", Null), handleRedo)

TDelete ==
  /\ host = "editor"
  /\ KeysEvent(Event("toolbarDelete", Null),
               handleDelete(SelectedIds(host, store)))

TDuplicate ==
  /\ host = "editor"
  /\ KeysEvent(Event("toolbarDuplicate", Null),
               handleDuplicate(SelectedIds(host, store)))

NextKeys ==
  \/ KSelectElement \/ KKeyDown
  \/ TUndo \/ TRedo \/ TDelete \/ TDuplicate

SpecKeys == InitKeys /\ [][NextKeys]_vars

\* the element `id` of `doc` is locked, by its own flag or by its layer
LockedIn(doc, id) ==
  \E i \in 1..Len(doc.elements) :
    /\ doc.elements[i].id = id
    /\ \/ doc.elements[i].locked
       \/ \E j \in 1..Len(doc.layers) :
            /\ doc.layers[j].id = doc.elements[i].layerId
            /\ doc.layers[j].locked

\* where an arrow key puts a position: `units` along the key's axis
Shifted(position, key, units) ==
  Pos(RAdd(position.x, R(CASE key = "ArrowLeft" -> 0 - units
                           [] key = "ArrowRight" -> units
                           [] OTHER -> 0)),
      RAdd(position.y, R(CASE key = "ArrowUp" -> 0 - units
                           [] key = "ArrowDown" -> units
                           [] OTHER -> 0)))

\* C28: an arrow key dispatches exactly one MOVE_ELEMENT for each selected
\* element that is not locked and none for the others, by 10 units with
\* Shift, else by the grid size when snapping, else by 1 unit.
C28_ArrowMovesUnlocked ==
  (last.type = "keydown" /\ last.payload.key \in ArrowKeys) =>
    LET sel == SelectedIds(host, pre)
        doc == Was.document
        acts == gesture.actions
        units == IF last.payload.shiftKey THEN 10
                 ELSE IF config.snapToGrid THEN config.gridSize ELSE 1
    IN  /\ \A k \in 1..Len(acts) : acts[k].type = "MOVE_ELEMENT"
        /\ \A i \in 1..Len(doc.elements) :
             LET el == doc.elements[i]
                 mine == {k \in 1..Len(acts) : acts[k].payload.id = el.id}
             IN  IF (\E n \in 1..Len(sel) : sel[n] = el.id)
                    /\ ~LockedIn(doc, el.id)
                   THEN /\ Cardinality(mine) = 1
                        /\ \A k \in mine :
                             acts[k].payload.position =
                               Shifted(el.position, last.payload.key, units)
                   ELSE mine = {}

\* C28 witness: with "a" and the layer-locked "b" selected and snapping on,
\* an arrow key without Shift moved "a" alone, by the grid size.
C28_Witness ==
  /\ last.type = "keydown"
  /\ last.payload.key = "ArrowLeft"
  /\ ~last.payload.shiftKey
  /\ config.snapToGrid
  /\ SelectedIds(host, pre) = <<"a", "b">>
  /\ Len(gesture.actions) = 1
  /\ gesture.actions[1].payload.position = P(5, 20)

\* C29: in the editor every selected id names an element of the current
\* document.
C29_SelectionInDocument ==
  host = "editor" =>
    \A i \in 1..Len(store.selectedIds) :
      HasElement(Cur.document.elements, store.selectedIds[i])

\* C30: an undo (redo) shortcut dispatches UNDO (REDO) whatever the
\* selection; after Delete removed the selected elements and cleared the
\* selection, the undo shortcut restores the document.
C30_UndoShortcutAlways ==
  (/\ last.type = "keydown"
   /\ last.payload.key \in {"z", "y"}
   /\ last.payload.ctrlKey \/ last.payload.metaKey) =>
    /\ gesture.actions =
         <<IF last.payload.key = "z" THEN UndoAction ELSE RedoAction>>
    /\ store = dispatch(host, pre,
                        IF last.payload.key = "z" THEN UndoAction
                        ELSE RedoAction, now)

\* C30, the part that does hold: with a non-empty selection the shortcuts
\* dispatch UNDO and REDO.
C30_UndoShortcutWhenSelected ==
  (/\ last.type = "keydown"
   /\ last.payload.key \in {"z", "y"}
   /\ last.payload.ctrlKey \/ last.payload.metaKey
   /\ Len(SelectedIds(host, pre)) > 0) =>
    gesture.actions =
      <<IF last.payload.key = "z" THEN UndoAction ELSE RedoAction>>

====
